---- MODULE Spec2Model ----
(***************************************************************************)
(* Model of the postgres runtime agent of service-external-postgres.       *)
(*                                                                         *)
(* The repository holds several revisions of the agent.  The model follows *)
(* the latest one: the Runtime of src/migrations/interface.go:72-404 (the  *)
(* revision that drives a migrations.Manager), with the Service of         *)
(* src/main.go:127-234 and the managers of src/migrations.                 *)
(*                                                                         *)
(* The host (the agent framework) calls Load, Init, Start, Stop and        *)
(* Destroy one at a time; Start blocks in the readiness poll and in the    *)
(* migration step, so it is modelled as a sequence of steps (pc).  The     *)
(* change watcher delivers events on its own goroutine, at any moment once *)
(* Start has registered the handler.  Collaborators that are not part of   *)
(* the repository (docker runner, database/sql, the service base, the      *)
(* migration engines) are modelled by the outcomes their calls can have.   *)
(***************************************************************************)
EXTENDS Naturals, Sequences, FiniteSets

VARIABLES
    settings,               \* Settings, read by Load (main.go:127-133)
    loaded,                 \* Load returned without error
    lifecycle,              \* state of spec section 3, kept from the calls' results
    connection,             \* Service.connection (main.go:147)
    RuntimeConfigurations,  \* s.Runtime.RuntimeConfigurations: scope of each entry
    runnerEnvironment,      \* Runtime.runnerEnvironment (interface.go:76)
    migrationManager,       \* Runtime.migrationManager (interface.go:79)
    managerConnections,     \* the manager's connection strings (alembic.go:20-21)
    container,              \* the docker container of the deterministic name
    database,               \* the schema of the database in that container
    watcher,                \* the handler is registered with the change watcher
    pc,                     \* position of the Start call in progress, or "idle"
    retry,                  \* loop variable of WaitForReady
    poll,                   \* what the readiness poll of the Start call has seen
    call,                   \* what the Start call has done, until the next call
    resp,                   \* response of the last lifecycle call that returned
    hpc,                    \* position of the event handler goroutine
    handled,                \* record of the event handler's work
    resolve,                \* a call of createConnectionString: arguments and result
    migrate,                \* a schema with its versions, and the manager's last call on it
    alembic,                \* a call of the containerized manager, step by step
    managerInit             \* a call of Manager.Init: arguments and result

vars == <<settings, loaded, lifecycle, connection, RuntimeConfigurations,
          runnerEnvironment, migrationManager, managerConnections, container, database,
          watcher, pc, retry, poll, call, resp, hpc, handled, resolve, migrate, alembic,
          managerInit>>

runtimeVars == <<connection, RuntimeConfigurations, runnerEnvironment, migrationManager,
                 managerConnections>>
startVars == <<pc, retry, poll, call>>
handlerVars == <<hpc, handled>>
functionVars == <<resolve, migrate, alembic, managerInit>>

----------------------------------------------------------------------------
\* Bounds of the model

\* entries of RuntimeConfigurations (it grows with each Init)
MaxConfigurations == 2

\* migrations of a migration directory: versions 1..MaxVersion
MaxVersion == 3

\* readings of the clock (time.Now().UnixMilli()): 1..MaxTime
MaxTime == 2

----------------------------------------------------------------------------
\* Program constants

maxRetry == 10

\* checks for tables that Alembic.Apply makes (alembic.go:198)
maxRetries == 12

Scopes == {"native", "container"}
Formats == {"gomigrate", "alembic", "unknown", ""}
Nil == "nil"

\* The schema of the database:
\*   "empty"        no version recorded, none of the migrations' tables
\*   "migrated"     the version table holds a version and the migrations' tables
\*                  are committed, visible to a native connection
\*   "uncommitted"  the version table exists, the tables are not visible
\*   "dirty"        a migration failed midway
Schemas == {"empty", "migrated", "uncommitted", "dirty"}

\* Strings that the code cuts, joins or searches are sequences of pieces.
\* strings.Contains(path, piece), for a piece that is one piece of the path
Contains(path, piece) == \E i \in 1..Len(path) : path[i] = piece

\* the keys of the "postgres" configuration that hold the credentials
CredentialKeys == {"POSTGRES_USER", "POSTGRES_PASSWORD"}
CredentialValues == {<<"admin">>, <<"s3cret">>}
\* a configuration holds a value for some of the keys
Configurations == UNION {[keys -> CredentialValues] : keys \in SUBSET CredentialKeys}
FullConfiguration == [key \in CredentialKeys |->
                        IF key = "POSTGRES_USER" THEN <<"admin">> ELSE <<"s3cret">>]

\* addresses of network instances: the native one, the one for containers, a
\* remote one, and a remote one whose host name has "localhost" in it
Addresses == { <<"localhost", ":", "5432">>,
               <<"host.docker.internal", ":", "5432">>,
               <<"db.example.com", ":", "5432">>,
               <<"my", "localhost", ".example.com", ":", "5432">> }
AddressOf(scope) == IF scope = "native" THEN <<"localhost", ":", "5432">>
                    ELSE <<"host.docker.internal", ":", "5432">>
DatabaseNames == {<<"app">>, <<"orders">>}

\* a manager as NewManager makes it: no connection string yet
NoConnections == [container |-> <<>>, native |-> <<>>]

\* a call of Manager.Init: the manager, the configurations it is given, the
\* connection strings the manager holds before and after, the error returned
NoManagerInit == [manager |-> "gomigrate", configurations |-> <<>>,
                  before |-> NoConnections, stored |-> NoConnections,
                  done |-> FALSE, err |-> Nil]

NoResolve == [conf |-> FullConfiguration, address |-> AddressOf("native"),
              withSSL |-> FALSE, DatabaseName |-> <<"app">>,
              done |-> FALSE, conn |-> <<>>, err |-> Nil]

\* the numbers migration files start with
Numerals == <<"001", "002", "003", "004", "005", "006", "007", "008", "009">>

NoMigrate == [manager |-> "gomigrate", exists |-> TRUE, latest |-> 0,
              version |-> 0, dirty |-> FALSE,
              op |-> "none", path |-> <<>>, number |-> 0, made |-> FALSE,
              before |-> [version |-> 0, dirty |-> FALSE],
              prior |-> [op |-> "none", err |-> Nil],
              ran |-> <<>>, calls |-> <<>>, err |-> Nil, cause |-> Nil]

\* at: the step the call is at; ctxDone: the context the caller passed is done;
\* runner: the helper container; i: checks for tables made; sleeps: delays
\* slept between them; tables: a check has found tables; commands: the commands
\* run in the helper container; interrupted: the steps that a done context has
\* made fail; schema: the schema of the database; files: the versions directory
\* holds revisions; name: the name of the helper container of the call; names:
\* the names given to helper containers so far; deferred: the call has deferred
\* runner.Shutdown; down: runner.Shutdown, when called, succeeds;
\* shutdownCalled: the call has called runner.Shutdown.  runner is "none",
\* "made" (the environment, no container yet), "partial" (a container that
\* runner.Init made before it failed), "running" or "shutdown"
NoAlembic == [at |-> "idle", op |-> "none", ctxDone |-> FALSE, runner |-> "none",
              deferred |-> FALSE, down |-> TRUE, shutdownCalled |-> FALSE,
              name |-> <<>>, names |-> {},
              i |-> 0, sleeps |-> 0, tables |-> FALSE, lastErr |-> Nil,
              commands |-> {}, currentFailed |-> FALSE, interrupted |-> {},
              err |-> Nil, schema |-> "empty", files |-> FALSE]

\* the scopes of a network mapping's instances, in the mapping's order
InstancesOf(scopes) ==
    (IF "native" \in scopes THEN <<"native">> ELSE <<>>) \o
    (IF "container" \in scopes THEN <<"container">> ELSE <<>>)

\* probes: iterations of the loop made; answered: in one of them the database
\* has answered the ping and the query; openFailed: in one of them the
\* connection could not be opened
NoPoll == [probes |-> 0, answered |-> FALSE, openFailed |-> FALSE]

\* runnerStart: the container runtime's Start was called; wait, mgrInit, apply,
\* watcher: how WaitForReady, Manager.Init, Manager.Apply and SetupWatcher
\* returned; schema: the database as Apply left it; afterStop: the call came in
\* the Stopped state
NoCall == [runnerStart |-> FALSE, wait |-> "none", mgrInit |-> "none", apply |-> "none",
           schema |-> "none", watcher |-> "none", afterStop |-> FALSE]

\* failed: a Manager.Update has returned an error; later: an event has arrived
\* after that; returned: the values the handler has returned; ignoredUnder: the
\* handler, with a manager there, has returned without an Update for a path
\* under the migrations directory; ignoredContaining: it has done so for a path
\* that contains "migrations"
NoHandled == [failed |-> FALSE, later |-> FALSE, returned |-> {},
              ignoredUnder |-> FALSE, ignoredContaining |-> FALSE]

HandlerIdle == [at |-> "idle", path |-> <<>>]

Init ==
    /\ settings \in [NoMigration : BOOLEAN, HotReload : BOOLEAN, MigrationFormat : Formats]
    \* the format is read only when migrations are enabled (interface.go:224)
    /\ settings.NoMigration => settings.MigrationFormat = "gomigrate"
    /\ loaded = FALSE
    /\ lifecycle = "Unloaded"
    /\ connection = <<>>
    /\ RuntimeConfigurations = <<>>
    /\ runnerEnvironment = Nil
    /\ migrationManager = Nil
    /\ managerConnections = NoConnections
    \* a container of the name may be left from an earlier run of the agent
    /\ container \in {"absent", "running"}
    /\ database \in IF container = "absent" THEN {"empty"} ELSE {"empty", "migrated"}
    /\ watcher = FALSE
    /\ pc = "idle"
    /\ retry = 0
    /\ poll = NoPoll
    /\ call = NoCall
    /\ resp = [op |-> "none", err |-> Nil]
    /\ hpc = HandlerIdle
    /\ handled = NoHandled
    /\ resolve = NoResolve
    /\ migrate = NoMigrate
    /\ alembic = NoAlembic
    /\ managerInit = NoManagerInit

----------------------------------------------------------------------------
\* Load (interface.go:88-117): the base, the endpoints and the TCP endpoint are
\* loaded; each of the three can fail, and a failure leaves the agent unloaded.

Load ==
    /\ ~loaded
    /\ pc = "idle"
    /\ \E ok \in BOOLEAN :
        IF ok
        THEN /\ loaded' = TRUE
             /\ lifecycle' = "Loaded"
             /\ resp' = [op |-> "Load", err |-> Nil]
        ELSE /\ resp' = [op |-> "Load", err |-> "cannot load"]
             /\ UNCHANGED <<loaded, lifecycle>>
    /\ UNCHANGED <<functionVars, settings, runtimeVars, container, database, watcher,
                   startVars, handlerVars>>

\* a mutation of NewManager: a format that is not known gives the embedded manager
NewManagerDefaultsToEmbedded(format) ==
    IF format = "alembic" THEN [manager |-> "alembic", err |-> Nil]
    ELSE [manager |-> "gomigrate", err |-> Nil]

----------------------------------------------------------------------------
\* NewManager (interface.go:34-43)

NewManager(format) ==
    IF format = "gomigrate" THEN [manager |-> "gomigrate", err |-> Nil]
    ELSE IF format = "alembic" THEN [manager |-> "alembic", err |-> Nil]
    ELSE [manager |-> Nil, err |-> "unsupported migration format"]

\* a mutation of RunnerInit: the environment is set up, the container not started
RunnerInitDoesNotStart(c) == c

\* runnerEnvironment.Init (interface.go:218-222, "will start container"): the
\* container of the name, in state c before, is running afterwards
RunnerInit(c) == "running"

----------------------------------------------------------------------------
\* The connection string (main.go:185-212)

\* resources.GetConfigurationValue(ctx, conf, "postgres", key)
GetConfigurationValue(conf, key) ==
    IF key \in DOMAIN conf THEN [value |-> conf[key], err |-> Nil]
    ELSE [value |-> <<>>, err |-> "configuration value not found"]

\* main.go:185-196
getUserPassword(conf) ==
    LET user == GetConfigurationValue(conf, "POSTGRES_USER")
        password == GetConfigurationValue(conf, "POSTGRES_PASSWORD")
    IN  IF user.err # Nil THEN
            [user |-> <<>>, password |-> <<>>, err |-> "cannot get user"]
        ELSE IF password.err # Nil THEN
            [user |-> <<>>, password |-> <<>>, err |-> "cannot get password"]
        ELSE [user |-> user.value, password |-> password.value, err |-> Nil]

\* fmt.Sprintf("postgresql://%s:%s@%s/%s", user, password, address, name)
Sprintf(user, password, address, name) ==
    <<"postgresql://">> \o user \o <<":">> \o password \o <<"@">> \o address \o <<"/">> \o name

\* a mutation of createConnectionString (the one of main.go:349-363): the address
\* is not looked at
createConnectionStringOnlyFlag(conf, address, withSSL, name) ==
    LET got == getUserPassword(conf)
        conn == Sprintf(got.user, got.password, address, name)
    IN  IF got.err # Nil THEN [conn |-> <<>>, err |-> "cannot get user and password"]
        ELSE IF ~withSSL THEN [conn |-> conn \o <<"?sslmode=disable">>, err |-> Nil]
        ELSE [conn |-> conn, err |-> Nil]

\* a mutation of createConnectionString: credentials that cannot be read are
\* replaced by defaults
createConnectionStringWithDefaults(conf, address, withSSL, name) ==
    LET got == getUserPassword(conf)
        user == IF got.err # Nil THEN <<"postgres">> ELSE got.user
        password == IF got.err # Nil THEN <<"postgres">> ELSE got.password
        conn == Sprintf(user, password, address, name)
    IN  IF ~withSSL \/ Contains(address, "localhost")
                   \/ Contains(address, "host.docker.internal")
        THEN [conn |-> conn \o <<"?sslmode=disable">>, err |-> Nil]
        ELSE [conn |-> conn, err |-> Nil]

\* main.go:198-212
createConnectionString(conf, address, withSSL, name) ==
    LET got == getUserPassword(conf)
        conn == Sprintf(got.user, got.password, address, name)
    IN  IF got.err # Nil THEN [conn |-> <<>>, err |-> "cannot get user and password"]
        ELSE IF ~withSSL \/ Contains(address, "localhost")
                        \/ Contains(address, "host.docker.internal")
        THEN [conn |-> conn \o <<"?sslmode=disable">>, err |-> Nil]
        ELSE [conn |-> conn, err |-> Nil]

\* the configurations an Init request can carry: with the credentials, or without
\* the password
InitConfigurations ==
    {FullConfiguration, [key \in {"POSTGRES_USER"} |-> <<"admin">>]}

\* a mutation of InitResult: the migration settings are checked before the
\* container runtime is made and initialized
InitResultChecksMigrationsFirst(scopes, conf, docker, up, dirOK) ==
    LET before == [configs |-> RuntimeConfigurations, conn |-> connection,
                   runner |-> runnerEnvironment, manager |-> migrationManager,
                   stored |-> managerConnections, container |-> container, err |-> Nil]
        \* lines 162-169: one configuration per instance of the mapping
        withConfigs == [before EXCEPT !.configs = RuntimeConfigurations \o InstancesOf(scopes)]
        \* lines 175-184
        created == createConnectionString(conf, AddressOf("native"), FALSE, <<"app">>)
        withConn == [withConfigs EXCEPT !.conn = created.conn]
        \* lines 197-201
        withRunner == [withConn EXCEPT !.runner = "configured"]
        \* lines 219-222
        withContainer == [withRunner EXCEPT !.runner = "initialized",
                                            !.container = RunnerInit(container)]
        made == NewManager(settings.MigrationFormat)
    IN  IF scopes = {} THEN
            [before EXCEPT !.err = "network mapping is nil"]
        ELSE IF "native" \notin scopes THEN
            [before EXCEPT !.err = "network instance is nil"]
        \* lines 163-166 (main.go:217-220)
        ELSE IF created.err # Nil THEN
            [before EXCEPT !.err = "cannot create connection string"]
        ELSE IF ~settings.NoMigration /\ ~dirOK THEN
            [withConn EXCEPT !.err = "migration version directory is empty"]
        ELSE IF ~settings.NoMigration /\ made.err # Nil THEN
            [withConn EXCEPT !.err = made.err]
        ELSE IF ~docker THEN
            [withConn EXCEPT !.err = "cannot create docker environment"]
        ELSE IF ~up THEN
            [withRunner EXCEPT !.err = "cannot init runner environment"]
        ELSE IF settings.NoMigration THEN
            withContainer
        ELSE
            \* line 250: the manager is a new object, with no connection string
            [withContainer EXCEPT !.manager = made.manager, !.stored = NoConnections]

\* a mutation of InitResult: the manager is made whatever the settings say
InitResultAlwaysMakesManager(scopes, conf, docker, up, dirOK) ==
    LET before == [configs |-> RuntimeConfigurations, conn |-> connection,
                   runner |-> runnerEnvironment, manager |-> migrationManager,
                   stored |-> managerConnections, container |-> container, err |-> Nil]
        \* lines 162-169: one configuration per instance of the mapping
        withConfigs == [before EXCEPT !.configs = RuntimeConfigurations \o InstancesOf(scopes)]
        \* lines 175-184
        created == createConnectionString(conf, AddressOf("native"), FALSE, <<"app">>)
        withConn == [withConfigs EXCEPT !.conn = created.conn]
        \* lines 197-201
        withRunner == [withConn EXCEPT !.runner = "configured"]
        \* lines 219-222
        withContainer == [withRunner EXCEPT !.runner = "initialized",
                                            !.container = RunnerInit(container)]
        made == NewManager(settings.MigrationFormat)
    IN  IF scopes = {} THEN
            [before EXCEPT !.err = "network mapping is nil"]
        ELSE IF "native" \notin scopes THEN
            [before EXCEPT !.err = "network instance is nil"]
        \* lines 163-166 (main.go:217-220)
        ELSE IF created.err # Nil THEN
            [before EXCEPT !.err = "cannot create connection string"]
        ELSE IF ~docker THEN
            [withConn EXCEPT !.err = "cannot create docker environment"]
        ELSE IF ~up THEN
            [withRunner EXCEPT !.err = "cannot init runner environment"]
        ELSE IF ~dirOK THEN
            [withContainer EXCEPT !.err = "migration version directory is empty"]
        ELSE IF made.err # Nil THEN
            [withContainer EXCEPT !.err = made.err]
        ELSE
            \* line 250: the manager is a new object, with no connection string
            [withContainer EXCEPT !.manager = made.manager, !.stored = NoConnections]

\* Init (interface.go:126-255), as the record of what the call leaves behind.
\*   scopes: the scopes of the instances of the proposed network mapping
\*   conf:   the configuration of the request
\*   docker: the docker environment can be created and configured
\*   up:     runnerEnvironment.Init succeeds
\*   dirOK:  the version directory override, when set, is a non-empty directory
InitResult(scopes, conf, docker, up, dirOK) ==
    LET before == [configs |-> RuntimeConfigurations, conn |-> connection,
                   runner |-> runnerEnvironment, manager |-> migrationManager,
                   stored |-> managerConnections, container |-> container, err |-> Nil]
        \* lines 162-169: one configuration per instance of the mapping
        withConfigs == [before EXCEPT !.configs = RuntimeConfigurations \o InstancesOf(scopes)]
        \* lines 175-184
        created == createConnectionString(conf, AddressOf("native"), FALSE, <<"app">>)
        withConn == [withConfigs EXCEPT !.conn = created.conn]
        \* lines 197-201
        withRunner == [withConn EXCEPT !.runner = "configured"]
        \* lines 219-222
        withContainer == [withRunner EXCEPT !.runner = "initialized",
                                            !.container = RunnerInit(container)]
        made == NewManager(settings.MigrationFormat)
    IN  IF scopes = {} THEN
            [before EXCEPT !.err = "network mapping is nil"]
        ELSE IF "native" \notin scopes THEN
            [before EXCEPT !.err = "network instance is nil"]
        \* lines 163-166 (main.go:217-220)
        ELSE IF created.err # Nil THEN
            [before EXCEPT !.err = "cannot create connection string"]
        ELSE IF ~docker THEN
            [withConn EXCEPT !.err = "cannot create docker environment"]
        ELSE IF ~up THEN
            [withRunner EXCEPT !.err = "cannot init runner environment"]
        ELSE IF settings.NoMigration THEN
            withContainer
        ELSE IF ~dirOK THEN
            [withContainer EXCEPT !.err = "migration version directory is empty"]
        ELSE IF made.err # Nil THEN
            [withContainer EXCEPT !.err = made.err]
        ELSE
            \* line 250: the manager is a new object, with no connection string
            [withContainer EXCEPT !.manager = made.manager, !.stored = NoConnections]

\* Init with a request of the given network mapping and configuration
InitRequest(scopes, conf) ==
    /\ loaded
    /\ pc = "idle"
    /\ \E docker \in BOOLEAN, up \in BOOLEAN, dirOK \in BOOLEAN :
        LET r == InitResult(scopes, conf, docker, up, dirOK) IN
        \* a step that Init does not come to has no outcome of its own
        /\ r.err \in {"network mapping is nil", "network instance is nil",
                       "cannot create connection string"} => (docker /\ up)
        /\ ~docker => up
        /\ (~up \/ settings.NoMigration) => dirOK
        /\ Len(r.configs) <= MaxConfigurations
        /\ RuntimeConfigurations' = r.configs
        /\ connection' = r.conn
        /\ runnerEnvironment' = r.runner
        /\ migrationManager' = r.manager
        /\ managerConnections' = r.stored
        /\ container' = r.container
        /\ resp' = [op |-> "Init", err |-> r.err]
        /\ lifecycle' = IF r.err = Nil THEN "Initialized" ELSE lifecycle
    /\ poll' = NoPoll
    /\ call' = NoCall
    /\ UNCHANGED <<settings, loaded, database, watcher, pc, retry, handlerVars>>

RuntimeInit ==
    /\ \E scopes \in SUBSET Scopes, conf \in InitConfigurations : InitRequest(scopes, conf)
    /\ UNCHANGED functionVars

----------------------------------------------------------------------------
\* Contexts (package context) and database/sql, as far as WaitForReady uses them.
\* A context is modelled by whether it is done.

\* context.WithTimeout(parent, d): the derived context is done as soon as its
\* parent is (the deadline itself lies after the call it guards)
WithTimeout(parentDone) == parentDone

\* db.PingContext(ctx) against a database whose state this attempt is o
PingContext(ctxDone, o) ==
    IF ctxDone THEN "context canceled"
    ELSE IF o = "pingfail" THEN "connection refused"
    ELSE Nil

\* db.ExecContext(ctx, "SELECT 1"): database/sql returns ctx.Err() for a context
\* that is already done, before it reaches the database
ExecContext(ctxDone, o) ==
    IF ctxDone THEN "context canceled"
    ELSE IF o = "ready" THEN Nil
    ELSE "not accepting queries"

\* What the database does in one attempt: the connection cannot be opened, the
\* ping fails, the ping is answered but not the query, both are answered.
ProbeOutcomes == {"openfail", "pingfail", "queryfail", "ready"}

----------------------------------------------------------------------------
\* Start (interface.go:312-347)

\* lines 312-320: Start enters WaitForReady
StartCall ==
    /\ loaded
    /\ pc = "idle"
    /\ pc' = "wait"
    /\ retry' = 0
    /\ poll' = NoPoll
    /\ call' = [NoCall EXCEPT !.afterStop = (lifecycle = "Stopped")]
    /\ resp' = [op |-> "Start", err |-> "pending"]
    /\ UNCHANGED <<functionVars, settings, loaded, lifecycle, runtimeVars, container, database,
                   watcher, handlerVars>>

\* a mutation of WaitForReadyAttempt: a connection that cannot be opened ends
\* the poll with the error (as in runtime.go:164-167)
WaitForReadyOpenFailureReturns(o, tracked) ==
    /\ pc = "wait"
    /\ retry < maxRetry
    /\ IF o = "openfail"
       THEN /\ pc' = "idle"
            /\ retry' = 0
            /\ poll' = [poll EXCEPT !.probes = @ + 1, !.openFailed = TRUE]
            /\ call' = [call EXCEPT !.wait = "not ready"]
            /\ resp' = [op |-> "Start", err |-> "database is not ready after maximum retries"]
       ELSE IF o = "ready" /\ ~tracked
       THEN /\ pc' = "migrate"
            /\ retry' = 0
            /\ poll' = [poll EXCEPT !.probes = @ + 1, !.answered = TRUE]
            /\ call' = [call EXCEPT !.wait = "ok"]
            /\ UNCHANGED resp
       ELSE /\ retry' = retry + 1
            /\ poll' = [poll EXCEPT !.probes = @ + 1, !.answered = @ \/ o = "ready"]
            /\ UNCHANGED <<pc, call, resp>>
    /\ UNCHANGED <<functionVars, settings, loaded, lifecycle, runtimeVars, container, database,
                   watcher, handlerVars>>

\* One iteration of the loop of WaitForReady (interface.go:275-307) against a
\* database that does o.  The caller's context is live.  tracked: the contexts
\* are followed through cancel(); otherwise every context is taken to be live.
WaitForReadyAttempt(o, tracked) ==
    LET opened == o # "openfail"
        \* line 284: ctx, cancel := context.WithTimeout(ctx, 10*time.Second)
        pingCtx == WithTimeout(FALSE)
        pingErr == PingContext(pingCtx, o)
        \* line 286: cancel() ends the context of line 284
        cancelled == tracked
        \* line 291: ctx, cancel = context.WithTimeout(ctx, 10*time.Second)
        execCtx == WithTimeout(cancelled)
        execErr == IF pingErr = Nil THEN ExecContext(execCtx, o) ELSE pingErr
        ready == opened /\ pingErr = Nil /\ execErr = Nil
        seen == [poll EXCEPT !.probes = @ + 1,
                             !.answered = @ \/ o = "ready",
                             !.openFailed = @ \/ ~opened]
    IN  /\ pc = "wait"
        /\ retry < maxRetry
        /\ poll' = seen
        /\ IF ready
           THEN \* lines 295-298: return nil
                /\ pc' = "migrate"
                /\ retry' = 0
                /\ call' = [call EXCEPT !.wait = "ok"]
           ELSE \* lines 277-281, 301-306: sleep and go round
                /\ retry' = retry + 1
                /\ UNCHANGED <<pc, call>>
        /\ UNCHANGED <<functionVars, settings, loaded, lifecycle, runtimeVars, container, database,
                       watcher, resp, handlerVars>>

\* the readiness poll, with the contexts of lines 284-293 followed through
WaitForReady == \E o \in ProbeOutcomes : WaitForReadyAttempt(o, TRUE)

\* the readiness poll, every context taken to be live
WaitForReadyLive == \E o \in ProbeOutcomes : WaitForReadyAttempt(o, FALSE)

\* interface.go:309 and 320-323: the loop is over, WaitForReady returns the
\* error and Start returns it
WaitForReadyExhausted ==
    /\ pc = "wait"
    /\ retry = maxRetry
    /\ pc' = "idle"
    /\ call' = [call EXCEPT !.wait = "not ready"]
    /\ resp' = [op |-> "Start", err |-> "database is not ready after maximum retries"]
    /\ retry' = 0
    /\ UNCHANGED <<functionVars, settings, loaded, lifecycle, runtimeVars, container, database,
                   watcher, poll, handlerVars>>

----------------------------------------------------------------------------
\* The migration managers (src/migrations)

\* a mutation of ManagerInit: both managers need both configurations
ManagerInitBothScopes(manager, configurations) ==
    LET has(scope) == \E i \in 1..Len(configurations) : configurations[i] = scope
    IN  IF ~has("container") THEN "cannot extract container configuration"
        ELSE IF ~has("native") THEN "cannot extract native configuration"
        ELSE Nil

\* the connection string of the configuration Init makes for an instance of the
\* scope (interface.go:162-169, main.go:214-234)
ConfiguredConnection(scope) ==
    createConnectionString(FullConfiguration, AddressOf(scope), FALSE, <<"app">>).conn

\* the configurations of the runtime, each with the connection string Init has
\* put in it
Valued(scopes) ==
    [i \in 1..Len(scopes) |->
        [scope |-> scopes[i],
         values |-> [key \in {"connection"} |-> ConfiguredConnection(scopes[i])]]]

\* resources.ExtractConfiguration(configurations, scope): the first
\* configuration of the runtime context, or an error
ExtractConfiguration(configurations, scope) ==
    LET found == {i \in 1..Len(configurations) : configurations[i].scope = scope}
    IN  IF found = {} THEN [conf |-> Nil, err |-> "configuration not found"]
        ELSE [conf |-> configurations[CHOOSE i \in found : \A j \in found : i <= j],
              err |-> Nil]

\* Alembic.Init (alembic.go:29-54): the result of GetConfigurationValue is
\* assigned to the field together with err, before err is looked at
AlembicInit(configurations, stored) ==
    LET containerConfig == ExtractConfiguration(configurations, "container")
        nativeConfig == ExtractConfiguration(configurations, "native")
        containerValue == GetConfigurationValue(containerConfig.conf.values, "connection")
        nativeValue == GetConfigurationValue(nativeConfig.conf.values, "connection")
        first == [stored EXCEPT !.container = containerValue.value]
        second == [first EXCEPT !.native = nativeValue.value]
    IN  IF containerConfig.err # Nil
        THEN [stored |-> stored, err |-> "cannot extract container configuration"]
        ELSE IF containerValue.err # Nil
        THEN [stored |-> first, err |-> "cannot get container connection string"]
        ELSE IF nativeConfig.err # Nil
        THEN [stored |-> first, err |-> "cannot extract native configuration"]
        ELSE IF nativeValue.err # Nil
        THEN [stored |-> second, err |-> "cannot get native connection string"]
        ELSE [stored |-> second, err |-> Nil]

\* GolangMigrate.Init (golang_migrate.go:39-52): the value goes to a local and
\* is assigned to the field once err was looked at
GolangMigrateInit(configurations, stored) ==
    LET migrationConfig == ExtractConfiguration(configurations, "native")
        connString == GetConfigurationValue(migrationConfig.conf.values, "connection")
    IN  IF migrationConfig.err # Nil
        THEN [stored |-> stored, err |-> "cannot extract configuration"]
        ELSE IF connString.err # Nil
        THEN [stored |-> stored, err |-> "cannot get connection string"]
        ELSE [stored |-> [stored EXCEPT !.native = connString.value], err |-> Nil]

\* Manager.Init of the manager NewManager made
ManagerInitResult(manager, configurations, stored) ==
    IF manager = "alembic" THEN AlembicInit(configurations, stored)
    ELSE GolangMigrateInit(configurations, stored)

\* the fields Manager.Init assigns (alembic.go:35, 45; golang_migrate.go:49): a
\* connection string is stored as soon as its configuration is found, also when
\* the call fails afterwards
ManagerInitConnections(manager, configurations, stored) ==
    ManagerInitResult(manager, Valued(configurations), stored).stored

\* Manager.Init (golang_migrate.go:39-52, alembic.go:29-54): the embedded manager
\* needs the native configuration, the containerized one the container and the
\* native configuration
ManagerInit(manager, configurations) ==
    ManagerInitResult(manager, Valued(configurations), NoConnections).err

\* GolangMigrate.Apply (golang_migrate.go:54-79) on a database of schema db.
\*   up:     the connection, the driver and the migrate instance are made
\*   files:  the migration directory holds migration files
\*   engine: the migrations that m.Up() runs succeed
\* m.Up() refuses a dirty database, fails when it finds no migration file, and
\* answers ErrNoChange, which Apply takes for success, when none is pending.
GolangMigrateApply(db, up, files, engine) ==
    IF ~up THEN [database |-> db, err |-> "cannot create migration"]
    ELSE IF db = "dirty" \/ ~files THEN [database |-> db, err |-> "cannot apply migration"]
    ELSE IF db = "migrated" THEN [database |-> db, err |-> Nil]
    ELSE IF engine THEN [database |-> "migrated", err |-> Nil]
    ELSE [database |-> "dirty", err |-> "cannot apply migration"]

\* a mutation of AlembicApply: the tables are logged and an empty list is not
\* an error
AlembicApplyDoesNotFailIfEmpty(db, up, files, engine, visible) ==
    IF ~up THEN [database |-> db, err |-> "cannot init runner"]
    ELSE IF ~engine THEN [database |-> db, err |-> "alembic upgrade failed"]
    ELSE IF db = "migrated" \/ (files /\ visible) THEN [database |-> "migrated", err |-> Nil]
    ELSE [database |-> IF files THEN "uncommitted" ELSE db, err |-> Nil]

\* Alembic.Apply (alembic.go:102-330) on a database of schema db.
\*   up:      the helper container is made and initialised, "alembic current" runs
\*   files:   the versions directory holds revisions
\*   engine:  "alembic upgrade head" exits without error
\*   visible: the tables of the upgrade are seen through the native connection
\*            within the 12 checks of lines 197-255
AlembicApply(db, up, files, engine, visible) ==
    LET versionTable == files \/ db \in {"migrated", "uncommitted"}
        tables == db = "migrated" \/ (files /\ visible)
    IN  IF ~up THEN [database |-> db, err |-> "cannot init runner"]
        ELSE IF ~engine THEN [database |-> db, err |-> "alembic upgrade failed"]
        ELSE IF tables THEN [database |-> "migrated", err |-> Nil]
        ELSE IF versionTable
        THEN [database |-> "uncommitted", err |-> "transaction issue detected"]
        ELSE [database |-> db, err |-> "no tables found in database"]

\* Manager.Apply of the manager NewManager made
Apply(manager, db, up, files, engine, visible) ==
    IF manager = "alembic" THEN AlembicApply(db, up, files, engine, visible)
    ELSE GolangMigrateApply(db, up, files, engine)

\* A path is the sequence of its pieces.
Paths == { <<"/", "svc", "/", "migrations", "/", "001", "_", "init.up.sql">>,
           <<"/", "svc", "/", "migrations", "/", "versions", "/", "a1b2", "_", "init.py">>,
           <<"/", "svc", "/", "old", "_", "migrations", ".txt">>,
           <<"/", "svc", "/", "service.codefly.yaml">> }

\* the path lies under the migrations directory of the service, s.Local("migrations")
UnderMigrations(path) ==
    /\ Len(path) > 5
    /\ SubSeq(path, 1, 5) = <<"/", "svc", "/", "migrations", "/">>

\* filepath.Base(path): the pieces after the last separator
Base(path) ==
    LET last == CHOOSE i \in 1..Len(path) :
                    /\ path[i] = "/"
                    /\ \A j \in (i + 1)..Len(path) : path[j] # "/"
    IN  SubSeq(path, last + 1, Len(path))

\* strings.Split(base, "_")[0]: the pieces before the first "_"
Prefix(base) ==
    IF Contains(base, "_")
    THEN SubSeq(base, 1, (CHOOSE i \in 1..Len(base) :
                             base[i] = "_" /\ \A j \in 1..(i - 1) : base[j] # "_") - 1)
    ELSE base

\* strconv.Atoi: the error, if any
Atoi(text) ==
    IF \E n \in 1..Len(Numerals) : text = <<Numerals[n]>> THEN Nil ELSE "invalid syntax"

\* strconv.Atoi: the number, when there is no error
Number(text) == CHOOSE n \in 1..Len(Numerals) : text = <<Numerals[n]>>

\* GolangMigrate.Update (golang_migrate.go:81-123): the number is parsed from
\* the file name, then Force, Down and Up
GolangMigrateUpdate(db, path, up, engine) ==
    IF Atoi(Prefix(Base(path))) # Nil
    THEN [database |-> db, err |-> "cannot parse migration number"]
    ELSE IF ~up THEN [database |-> db, err |-> "cannot create migration"]
    ELSE IF engine THEN [database |-> "migrated", err |-> Nil]
    ELSE [database |-> "dirty", err |-> "cannot apply migration"]

\* Alembic.Update (alembic.go:332-363): downgrade -1, then upgrade +1
AlembicUpdate(db, path, up, engine) ==
    IF ~up THEN [database |-> db, err |-> "cannot init docker environment"]
    ELSE IF engine THEN [database |-> db, err |-> Nil]
    ELSE [database |-> db, err |-> "alembic downgrade failed"]

\* Manager.Update of the manager NewManager made
Update(manager, db, path, up, engine) ==
    IF manager = "alembic" THEN AlembicUpdate(db, path, up, engine)
    ELSE GolangMigrateUpdate(db, path, up, engine)

----------------------------------------------------------------------------
\* The managers on a schema with versions.  The migration directory holds the
\* migrations 1..latest; the schema is at a version (0: none applied) and may be
\* dirty.  ran is the list of what a call has made the engine do.

Step(dir, version) == [dir |-> dir, version |-> version]

\* m.Force(n) of golang-migrate: the version is set, dirty is cleared, no
\* migration is run
MigrateForce(e, n) ==
    [version |-> n, dirty |-> FALSE, ran |-> <<Step("force", n)>>, err |-> Nil]

\* m.Down() of golang-migrate: every down migration from the version to the
\* first one, in order.  fails: the version whose down migration fails, or 0
MigrateDown(e, latest, fails) ==
    IF e.dirty THEN [version |-> e.version, dirty |-> TRUE, ran |-> <<>>, err |-> "Dirty database version"]
    ELSE IF e.version = 0 THEN [version |-> 0, dirty |-> FALSE, ran |-> <<>>, err |-> "no change"]
    ELSE IF e.version > latest
    THEN [version |-> e.version, dirty |-> FALSE, ran |-> <<>>, err |-> "file does not exist"]
    ELSE IF fails \in 1..e.version
    THEN [version |-> fails - 1, dirty |-> TRUE,
          ran |-> [i \in 1..(e.version - fails + 1) |-> Step("down", e.version + 1 - i)],
          err |-> "migration failed"]
    ELSE [version |-> 0, dirty |-> FALSE,
          ran |-> [i \in 1..e.version |-> Step("down", e.version + 1 - i)],
          err |-> Nil]

\* m.Up() of golang-migrate: every up migration after the version, in order.
\* fails: the version whose up migration fails, or 0
MigrateUp(e, latest, fails) ==
    IF e.dirty THEN [version |-> e.version, dirty |-> TRUE, ran |-> <<>>, err |-> "Dirty database version"]
    ELSE IF latest = 0 \/ e.version > latest
    THEN [version |-> e.version, dirty |-> FALSE, ran |-> <<>>, err |-> "file does not exist"]
    ELSE IF e.version = latest
    THEN [version |-> e.version, dirty |-> FALSE, ran |-> <<>>, err |-> "no change"]
    ELSE IF fails \in (e.version + 1)..latest
    THEN [version |-> fails, dirty |-> TRUE,
          ran |-> [i \in 1..(fails - e.version) |-> Step("up", e.version + i)],
          err |-> "migration failed"]
    ELSE [version |-> latest, dirty |-> FALSE,
          ran |-> [i \in 1..(latest - e.version) |-> Step("up", e.version + i)],
          err |-> Nil]

\* what a call of a manager leaves and returns.  calls: the calls of the engine
\* (or, for the containerized manager, the commands) it has made; cause: the
\* error of the engine that the returned error wraps
Outcome(to, ran, calls, err, cause, number) ==
    [version |-> to.version, dirty |-> to.dirty, ran |-> ran, calls |-> calls,
     err |-> err, cause |-> cause, number |-> number]

\* a mutation of GolangMigrateApplySteps: ErrNoChange is an error like any other
GolangMigrateApplyNoChangeFails(e, exists, latest, made, fails) ==
    LET up == MigrateUp(e, latest, fails)
    IN  IF ~exists \/ ~made
        THEN Outcome(e, <<>>, <<>>, "cannot create migration", "cannot open", 0)
        ELSE IF up.err # Nil
        THEN Outcome(up, up.ran, <<"Up">>, "cannot apply migration", up.err, 0)
        ELSE Outcome(up, up.ran, <<"Up">>, Nil, Nil, 0)

\* a mutation of GolangMigrateApplySteps (the loop of src/unnamed/part_006:51-77,
\* made to go on after an error of m.Up): the engine is tried a second time
GolangMigrateApplyRetries(e, exists, latest, made, fails) ==
    LET up == MigrateUp(e, latest, fails)
        again == MigrateUp(up, latest, 0)
    IN  IF ~exists \/ ~made
        THEN Outcome(e, <<>>, <<>>, "cannot create migration", "cannot open", 0)
        ELSE IF up.err # Nil /\ up.err # "no change"
        THEN IF again.err # Nil /\ again.err # "no change"
             THEN Outcome(again, up.ran \o again.ran, <<"Up", "Up">>,
                          "cannot apply migration: retries exceeded", again.err, 0)
             ELSE Outcome(again, up.ran \o again.ran, <<"Up", "Up">>, Nil, Nil, 0)
        ELSE Outcome(up, up.ran, <<"Up">>, Nil, Nil, 0)

\* GolangMigrate.Apply (golang_migrate.go:54-79).
\*   exists: the migration directory exists (the file source of the engine
\*           cannot be opened on a directory that does not)
\*   made:   the connection, the driver and the migrate instance are made
GolangMigrateApplySteps(e, exists, latest, made, fails) ==
    LET up == MigrateUp(e, latest, fails)
    IN  IF ~exists \/ ~made
        THEN Outcome(e, <<>>, <<>>, "cannot create migration", "cannot open", 0)
        ELSE IF up.err # Nil /\ up.err # "no change"
        THEN Outcome(up, up.ran, <<"Up">>, "cannot apply migration", up.err, 0)
        ELSE Outcome(up, up.ran, <<"Up">>, Nil, Nil, 0)

\* Alembic.Apply (alembic.go:102-330).  "alembic upgrade head" runs the revisions
\* after the version, each in a transaction; then the tables are looked for
\* through the native connection.  A dirty schema here is one whose revisions
\* are recorded and whose tables are not visible.
\*   exists:  the migration directory (with alembic.ini) exists
\*   made:    the helper container is made and initialised, "alembic current" runs
\*   visible: the tables of the upgrade are seen within the 12 checks
AlembicApplySteps(e, exists, latest, made, fails, visible) ==
    LET todo == IF e.version < latest THEN latest - e.version ELSE 0
        tables == (e.version > 0 /\ ~e.dirty) \/ (todo > 0 /\ visible)
        versionTable == latest > 0 \/ e.version > 0
        commands == <<"getRunner", "runner.Init", "alembic current", "alembic upgrade head">>
    IN  IF ~made
        THEN Outcome(e, <<>>, <<"getRunner">>, "cannot init runner", "cannot init", 0)
        ELSE IF ~exists
        THEN Outcome(e, <<>>, SubSeq(commands, 1, 3), "cannot check current version",
                     "exit status", 0)
        ELSE IF todo > 0 /\ fails \in (e.version + 1)..latest
        THEN Outcome([version |-> fails - 1, dirty |-> e.dirty],
                     [i \in 1..(fails - e.version) |-> Step("up", e.version + i)],
                     commands, "alembic upgrade failed", "exit status", 0)
        ELSE LET ran == [i \in 1..todo |-> Step("up", e.version + i)]
                 version == IF todo > 0 THEN latest ELSE e.version
             IN  IF tables
                 THEN Outcome([version |-> version, dirty |-> FALSE], ran, commands, Nil, Nil, 0)
                 ELSE IF versionTable
                 THEN Outcome([version |-> version, dirty |-> version > 0], ran, commands,
                              "transaction issue detected", Nil, 0)
                 ELSE Outcome([version |-> version, dirty |-> FALSE], ran, commands,
                              "no tables found in database", Nil, 0)

\* what a command run in the helper container meets: it succeeds; it fails
\* without effect; it is reported failed after it has taken effect (the context
\* of the caller, under which Update runs it, is done meanwhile)
CommandOutcomes == {"ok", "failed", "failed late"}

\* "alembic downgrade -1" on a schema at e: there must be a revision to go down
\* from, and the directory must hold it
AlembicDowngradeOne(e, exists, latest, outcome) ==
    IF ~exists \/ e.version = 0 \/ e.version > latest \/ outcome = "failed"
    THEN [version |-> e.version, ran |-> <<>>, err |-> "exit status"]
    ELSE [version |-> e.version - 1, ran |-> <<Step("down", e.version)>>,
          err |-> IF outcome = "ok" THEN Nil ELSE "exit status"]

\* "alembic upgrade +1" on a schema at e
AlembicUpgradeOneStep(e, exists, latest, outcome) ==
    IF ~exists \/ e.version >= latest \/ outcome = "failed"
    THEN [version |-> e.version, ran |-> <<>>, err |-> "exit status"]
    ELSE [version |-> e.version + 1, ran |-> <<Step("up", e.version + 1)>>,
          err |-> IF outcome = "ok" THEN Nil ELSE "exit status"]

\* a mutation of AlembicUpdateSteps: the upgrade is run whatever the downgrade
\* returned
AlembicUpdateUpgradesAnyway(e, exists, latest, made, down, up) ==
    LET commands == <<"getRunner", "runner.Init", "alembic downgrade -1", "alembic upgrade +1">>
        lowered == AlembicDowngradeOne(e, exists, latest, down)
        raised == AlembicUpgradeOneStep([version |-> lowered.version, dirty |-> e.dirty],
                                        exists, latest, up)
    IN  IF ~made
        THEN Outcome(e, <<>>, SubSeq(commands, 1, 2), "cannot init docker environment",
                     "cannot init", 0)
        ELSE Outcome([version |-> raised.version, dirty |-> e.dirty],
                     lowered.ran \o raised.ran, commands,
                     IF raised.err # Nil THEN "alembic upgrade failed" ELSE Nil,
                     raised.err, 0)

\* Alembic.Update (alembic.go:332-363) on a schema at e: the file that changed
\* is not looked at.
\*   made: getRunner and runner.Init succeed
\*   down, up: what the two commands meet
AlembicUpdateSteps(e, exists, latest, made, down, up) ==
    LET commands == <<"getRunner", "runner.Init", "alembic downgrade -1", "alembic upgrade +1">>
        lowered == AlembicDowngradeOne(e, exists, latest, down)
        raised == AlembicUpgradeOneStep([version |-> lowered.version, dirty |-> e.dirty],
                                        exists, latest, up)
    IN  IF ~made
        THEN Outcome(e, <<>>, SubSeq(commands, 1, 2), "cannot init docker environment",
                     "cannot init", 0)
        ELSE IF lowered.err # Nil
        THEN Outcome([version |-> lowered.version, dirty |-> e.dirty], lowered.ran,
                     SubSeq(commands, 1, 3), "alembic downgrade failed", lowered.err, 0)
        ELSE Outcome([version |-> raised.version, dirty |-> e.dirty],
                     lowered.ran \o raised.ran, commands,
                     IF raised.err # Nil THEN "alembic upgrade failed" ELSE Nil,
                     raised.err, 0)

\* a mutation of GolangMigrateUpdateSteps: a file name without a number is
\* passed over in silence
GolangMigrateUpdateParseIgnored(e, exists, latest, path, made, failsDown, failsUp) ==
    LET text == Prefix(Base(path))
        forced == MigrateForce(e, Number(text))
        down == MigrateDown(forced, latest, failsDown)
        up == MigrateUp(down, latest, failsUp)
    IN  IF Atoi(text) # Nil
        THEN Outcome(e, <<>>, <<>>, Nil, Nil, 0)
        ELSE IF ~exists \/ ~made
        THEN Outcome(e, <<>>, <<>>, "cannot create migration", "cannot open", Number(text))
        ELSE IF down.err # Nil /\ down.err # "no change"
        THEN Outcome(down, forced.ran \o down.ran, <<"Force", "Down">>,
                     "cannot apply migration", down.err, Number(text))
        ELSE IF up.err # Nil /\ up.err # "no change"
        THEN Outcome(up, forced.ran \o down.ran \o up.ran, <<"Force", "Down", "Up">>,
                     "cannot apply migration", up.err, Number(text))
        ELSE Outcome(up, forced.ran \o down.ran \o up.ran, <<"Force", "Down", "Up">>,
                     Nil, Nil, Number(text))

\* a mutation of GolangMigrateUpdateSteps: Force and Up, without Down
GolangMigrateUpdateWithoutDown(e, exists, latest, path, made, failsDown, failsUp) ==
    LET text == Prefix(Base(path))
        forced == MigrateForce(e, Number(text))
        up == MigrateUp(forced, latest, failsUp)
    IN  IF Atoi(text) # Nil
        THEN Outcome(e, <<>>, <<>>, "cannot parse migration number", "invalid syntax", 0)
        ELSE IF ~exists \/ ~made
        THEN Outcome(e, <<>>, <<>>, "cannot create migration", "cannot open", Number(text))
        ELSE IF up.err # Nil /\ up.err # "no change"
        THEN Outcome(up, forced.ran \o up.ran, <<"Force", "Up">>,
                     "cannot apply migration", up.err, Number(text))
        ELSE Outcome(up, forced.ran \o up.ran, <<"Force", "Up">>, Nil, Nil, Number(text))

\* GolangMigrate.Update (golang_migrate.go:81-123): the number is parsed from the
\* file name (lines 82-88), the migrate instance is made (90-108), then
\* m.Force(number), m.Down() and m.Up() (110-120)
GolangMigrateUpdateSteps(e, exists, latest, path, made, failsDown, failsUp) ==
    LET text == Prefix(Base(path))
        forced == MigrateForce(e, Number(text))
        down == MigrateDown(forced, latest, failsDown)
        up == MigrateUp(down, latest, failsUp)
    IN  IF Atoi(text) # Nil
        THEN Outcome(e, <<>>, <<>>, "cannot parse migration number", "invalid syntax", 0)
        ELSE IF ~exists \/ ~made
        THEN Outcome(e, <<>>, <<>>, "cannot create migration", "cannot open", Number(text))
        ELSE IF down.err # Nil /\ down.err # "no change"
        THEN Outcome(down, forced.ran \o down.ran, <<"Force", "Down">>,
                     "cannot apply migration", down.err, Number(text))
        ELSE IF up.err # Nil /\ up.err # "no change"
        THEN Outcome(up, forced.ran \o down.ran \o up.ran, <<"Force", "Down", "Up">>,
                     "cannot apply migration", up.err, Number(text))
        ELSE Outcome(up, forced.ran \o down.ran \o up.ran, <<"Force", "Down", "Up">>,
                     Nil, Nil, Number(text))

----------------------------------------------------------------------------
\* Start, after the readiness poll (interface.go:325-346)

\* a mutation of StartMigrate: with hot-reload the handler is registered with
\* the watcher before the migration step
StartMigrateWatchesFirst ==
    /\ pc = "migrate"
    /\ watcher' = (watcher \/ settings.HotReload)
    /\ IF ~settings.NoMigration /\ migrationManager # Nil
       THEN LET err == ManagerInit(migrationManager, RuntimeConfigurations)
                watched == [call EXCEPT !.watcher = IF settings.HotReload THEN "ok" ELSE @]
            IN
            /\ managerConnections' = ManagerInitConnections(
                    migrationManager, RuntimeConfigurations, managerConnections)
            /\ IF err # Nil
               THEN /\ pc' = "idle"
                    /\ call' = [watched EXCEPT !.mgrInit = "err"]
                    /\ resp' = [op |-> "Start", err |-> err]
               ELSE /\ pc' = "apply"
                    /\ call' = [watched EXCEPT !.mgrInit = "ok"]
                    /\ UNCHANGED resp
       ELSE /\ pc' = "watch"
            /\ UNCHANGED <<call, resp, managerConnections>>
    /\ poll' = NoPoll
    /\ UNCHANGED <<functionVars, settings, loaded, lifecycle, connection, RuntimeConfigurations,
                   runnerEnvironment, migrationManager, container, database, retry,
                   handlerVars>>

\* lines 325-330: the migration step begins; Manager.Init is called, stores the
\* connection strings it finds and, when it returns no error, Apply is entered
StartMigrate ==
    /\ pc = "migrate"
    /\ IF ~settings.NoMigration /\ migrationManager # Nil
       THEN LET err == ManagerInit(migrationManager, RuntimeConfigurations) IN
            /\ managerConnections' = ManagerInitConnections(
                    migrationManager, RuntimeConfigurations, managerConnections)
            /\ IF err # Nil
               THEN /\ pc' = "idle"
                    /\ call' = [call EXCEPT !.mgrInit = "err"]
                    /\ resp' = [op |-> "Start", err |-> err]
               ELSE /\ pc' = "apply"
                    /\ call' = [call EXCEPT !.mgrInit = "ok"]
                    /\ UNCHANGED resp
       ELSE /\ pc' = "watch"
            /\ UNCHANGED <<call, resp, managerConnections>>
    /\ poll' = NoPoll
    /\ UNCHANGED <<functionVars, settings, loaded, lifecycle, connection, RuntimeConfigurations,
                   runnerEnvironment, migrationManager, container, database, watcher, retry,
                   handlerVars>>

\* a mutation of StartApply: the error of Apply is logged and Start goes on
StartApplyErrorIgnored ==
    /\ pc = "apply"
    /\ \E up \in BOOLEAN, files \in BOOLEAN, engine \in BOOLEAN, visible \in BOOLEAN :
        LET r == Apply(migrationManager, database, up, files, engine, visible) IN
        /\ database' = r.database
        /\ call' = [call EXCEPT !.apply = IF r.err = Nil THEN "ok" ELSE "err",
                                !.schema = r.database]
    /\ pc' = "watch"
    /\ UNCHANGED <<functionVars, settings, loaded, lifecycle, runtimeVars, container,
                   watcher, retry, poll, resp, handlerVars>>

\* lines 331-335: Manager.Apply returns
StartApply ==
    /\ pc = "apply"
    /\ \E up \in BOOLEAN, files \in BOOLEAN, engine \in BOOLEAN, visible \in BOOLEAN :
        LET r == Apply(migrationManager, database, up, files, engine, visible) IN
        /\ database' = r.database
        /\ call' = [call EXCEPT !.apply = IF r.err = Nil THEN "ok" ELSE "err",
                                !.schema = r.database]
        /\ IF r.err = Nil
           THEN /\ pc' = "watch"
                /\ UNCHANGED resp
           ELSE /\ pc' = "idle"
                /\ resp' = [op |-> "Start", err |-> r.err]
    /\ UNCHANGED <<functionVars, settings, loaded, lifecycle, runtimeVars, container,
                   watcher, retry, poll, handlerVars>>

\* a mutation of StartWatch: the error of SetupWatcher is returned
StartWatchFailureFatal ==
    /\ pc = "watch"
    /\ IF settings.HotReload
       THEN \E ok \in BOOLEAN :
              /\ watcher' = (watcher \/ ok)
              /\ call' = [call EXCEPT !.watcher = IF ok THEN "ok" ELSE "err"]
              /\ resp' = [op |-> "Start", err |-> IF ok THEN Nil ELSE "cannot setup watcher"]
              /\ lifecycle' = IF ok THEN "Running" ELSE lifecycle
       ELSE /\ resp' = [op |-> "Start", err |-> Nil]
            /\ lifecycle' = "Running"
            /\ UNCHANGED <<watcher, call>>
    /\ pc' = "idle"
    /\ UNCHANGED <<functionVars, settings, loaded, runtimeVars, container, database, retry, poll,
                   handlerVars>>

\* a mutation of StartWatch: the handler is offered to the watcher only when
\* there are migrations to watch
StartWatchOnlyWithMigrations ==
    /\ pc = "watch"
    /\ IF settings.HotReload /\ ~settings.NoMigration
       THEN \E ok \in BOOLEAN :
              /\ watcher' = (watcher \/ ok)
              /\ call' = [call EXCEPT !.watcher = IF ok THEN "ok" ELSE "err"]
       ELSE UNCHANGED <<watcher, call>>
    /\ pc' = "idle"
    /\ resp' = [op |-> "Start", err |-> Nil]
    /\ lifecycle' = "Running"
    /\ UNCHANGED <<functionVars, settings, loaded, runtimeVars, container, database, retry, poll,
                   handlerVars>>

\* lines 338-346: the handler is offered to the watcher, and Start returns
StartWatch ==
    /\ pc = "watch"
    /\ IF settings.HotReload
       THEN \E ok \in BOOLEAN :
              /\ watcher' = (watcher \/ ok)
              /\ call' = [call EXCEPT !.watcher = IF ok THEN "ok" ELSE "err"]
       ELSE UNCHANGED <<watcher, call>>
    /\ pc' = "idle"
    /\ resp' = [op |-> "Start", err |-> Nil]
    /\ lifecycle' = "Running"
    /\ UNCHANGED <<functionVars, settings, loaded, runtimeVars, container, database, retry, poll,
                   handlerVars>>

----------------------------------------------------------------------------
\* a mutation of Stop: the container is stopped (as in part_005:928-943)
StopStopsContainer ==
    /\ loaded
    /\ pc = "idle"
    /\ \E ok \in BOOLEAN, watching \in {watcher, FALSE} :
        /\ watcher' = watching
        /\ IF ok
           THEN /\ resp' = [op |-> "Stop", err |-> Nil]
                /\ lifecycle' = "Stopped"
                /\ container' = IF container = "running" THEN "stopped" ELSE container
           ELSE /\ resp' = [op |-> "Stop", err |-> "cannot stop base"]
                /\ UNCHANGED <<lifecycle, container>>
    /\ poll' = NoPoll
    /\ call' = NoCall
    /\ UNCHANGED <<functionVars, settings, loaded, runtimeVars, database, pc, retry, handlerVars>>

\* a mutation of Stop: the connection string is forgotten with the stop
StopClearsConnection ==
    /\ loaded
    /\ pc = "idle"
    /\ \E ok \in BOOLEAN, watching \in {watcher, FALSE} :
        /\ watcher' = watching
        /\ IF ok
           THEN /\ resp' = [op |-> "Stop", err |-> Nil]
                /\ lifecycle' = "Stopped"
           ELSE /\ resp' = [op |-> "Stop", err |-> "cannot stop base"]
                /\ UNCHANGED lifecycle
    /\ connection' = <<>>
    /\ poll' = NoPoll
    /\ call' = NoCall
    /\ UNCHANGED <<functionVars, settings, loaded, RuntimeConfigurations, runnerEnvironment,
                   migrationManager, managerConnections, container, database, pc, retry,
                   handlerVars>>

\* Stop (interface.go:353-363): "nothing to stop: keep environment alive"; only
\* the service base is stopped, which may or may not end the watcher.
Stop ==
    /\ loaded
    /\ pc = "idle"
    /\ \E ok \in BOOLEAN, watching \in {watcher, FALSE} :
        /\ watcher' = watching
        /\ IF ok
           THEN /\ resp' = [op |-> "Stop", err |-> Nil]
                /\ lifecycle' = "Stopped"
           ELSE /\ resp' = [op |-> "Stop", err |-> "cannot stop base"]
                /\ UNCHANGED lifecycle
    /\ poll' = NoPoll
    /\ call' = NoCall
    /\ UNCHANGED <<functionVars, settings, loaded, runtimeVars, container, database,
                   pc, retry, handlerVars>>

\* Destroy (interface.go:365-382): a docker environment is made for the name
\* UniqueWithWorkspace() and shut down.
\*   made: NewDockerHeadlessEnvironment succeeds
\*   down: runner.Shutdown succeeds, leaving no container of the name
Destroy ==
    /\ loaded
    /\ pc = "idle"
    /\ \E made \in BOOLEAN, down \in BOOLEAN :
        IF ~made
        THEN /\ resp' = [op |-> "Destroy", err |-> "cannot create docker environment"]
             /\ UNCHANGED <<container, database, lifecycle>>
        ELSE IF down
             THEN /\ container' = "absent"
                  /\ database' = "empty"
                  /\ resp' = [op |-> "Destroy", err |-> Nil]
                  /\ lifecycle' = "Destroyed"
             ELSE /\ resp' = [op |-> "Destroy", err |-> "cannot shutdown"]
                  /\ UNCHANGED <<container, database, lifecycle>>
    /\ poll' = NoPoll
    /\ call' = NoCall
    /\ UNCHANGED <<functionVars, settings, loaded, runtimeVars, watcher, pc, retry, handlerVars>>

----------------------------------------------------------------------------
\* EventHandler (interface.go:396-404)

\* a mutation of Relevant: the manager is not looked at
RelevantWithoutManager(path, manager) == Contains(path, "migrations")

\* line 397: the condition under which the handler calls Manager.Update
Relevant(path, manager) == Contains(path, "migrations") /\ manager # Nil

\* lines 396-398: an event arrives; Manager.Update is called or the handler
\* returns at once
EventHandler ==
    /\ watcher
    /\ hpc.at = "idle"
    /\ \E path \in Paths :
        IF Relevant(path, migrationManager)
        THEN /\ hpc' = [at |-> "update", path |-> path]
             /\ handled' = [handled EXCEPT !.later = handled.failed]
        ELSE /\ handled' = [handled EXCEPT
                    !.later = handled.failed,
                    !.returned = @ \cup {Nil},
                    !.ignoredUnder =
                               @ \/ (UnderMigrations(path) /\ migrationManager # Nil),
                    !.ignoredContaining =
                        @ \/ (Contains(path, "migrations") /\ migrationManager # Nil)]
             /\ UNCHANGED hpc
    /\ UNCHANGED <<functionVars, settings, loaded, lifecycle, runtimeVars, container, database,
                   watcher, startVars, resp>>

\* a mutation of HandlerReturn: the error of Update is returned
HandlerReturnsError(err) == err

\* the value the handler returns once Manager.Update has returned err
\* (lines 399-403: a warning, then return nil)
HandlerReturn(err) == Nil

\* lines 398-403: Manager.Update returns, then the handler
EventHandlerUpdated ==
    /\ hpc.at = "update"
    /\ \E up \in BOOLEAN, engine \in BOOLEAN :
        LET r == Update(migrationManager, database, hpc.path, up, engine) IN
        /\ database' = r.database
        /\ handled' = [handled EXCEPT !.failed = @ \/ r.err # Nil,
                                      !.returned = @ \cup {HandlerReturn(r.err)}]
    /\ hpc' = HandlerIdle
    /\ UNCHANGED <<functionVars, settings, loaded, lifecycle, runtimeVars, container,
                   watcher, startVars, resp>>

----------------------------------------------------------------------------
\* The specifications

\* the lifecycle calls other than Start, and the event handler
Others ==
    \/ Load
    \/ RuntimeInit
    \/ Stop
    \/ Destroy
    \/ EventHandler
    \/ EventHandlerUpdated

\* The agent as the code has it: the contexts of WaitForReady are followed
\* through its cancel() calls.  The steps of Start after the poll are left out:
\* the poll never returns nil here, so they do not happen.
NextCtx ==
    \/ Load
    \/ RuntimeInit
    \/ Stop
    \/ Destroy
    \/ StartCall
    \/ WaitForReady
    \/ WaitForReadyExhausted

SpecCtx == Init /\ [][NextCtx]_vars

\* The connection string on its own: a loaded agent, and one call that makes a
\* connection string, for every configuration, address, flag and database name.
programVars == <<settings, loaded, lifecycle, runtimeVars, container, database, watcher,
                 startVars, resp, handlerVars>>

Loaded ==
    /\ settings = [NoMigration |-> FALSE, HotReload |-> FALSE, MigrationFormat |-> "gomigrate"]
    /\ loaded = TRUE
    /\ lifecycle = "Loaded"
    /\ connection = <<>>
    /\ RuntimeConfigurations = <<>>
    /\ runnerEnvironment = Nil
    /\ migrationManager = Nil
    /\ managerConnections = NoConnections
    /\ container = "absent"
    /\ database = "empty"
    /\ watcher = FALSE
    /\ pc = "idle"
    /\ retry = 0
    /\ poll = NoPoll
    /\ call = NoCall
    /\ resp = [op |-> "Load", err |-> Nil]
    /\ hpc = HandlerIdle
    /\ handled = NoHandled

InitResolve ==
    /\ Loaded
    /\ resolve \in [conf : Configurations, address : Addresses, withSSL : BOOLEAN,
                     DatabaseName : DatabaseNames, done : {FALSE}, conn : {<<>>},
                     err : {Nil}]
    /\ migrate = NoMigrate
    /\ alembic = NoAlembic
    /\ managerInit = NoManagerInit

\* createConnectionString is called with the arguments
Resolve ==
    /\ ~resolve.done
    /\ LET r == createConnectionString(resolve.conf, resolve.address, resolve.withSSL,
                                       resolve.DatabaseName)
       IN  resolve' = [resolve EXCEPT !.done = TRUE, !.conn = r.conn, !.err = r.err]
    /\ UNCHANGED programVars

\* Init is called with the configuration, and a mapping that lets it come to the
\* connection strings (interface.go:162-184)
ResolveInInit ==
    /\ ~resolve.done
    /\ \E scopes \in {scopes \in SUBSET Scopes : "native" \in scopes} :
            InitRequest(scopes, resolve.conf)
    /\ LET r == createConnectionString(resolve.conf, AddressOf("native"), FALSE, <<"app">>)
       IN  resolve' = [resolve EXCEPT !.done = TRUE, !.address = AddressOf("native"),
                                      !.withSSL = FALSE, !.DatabaseName = <<"app">>,
                                      !.conn = r.conn, !.err = r.err]

NextResolve ==
    \/ Resolve /\ UNCHANGED <<migrate, alembic, managerInit>>
    \/ ResolveInInit /\ UNCHANGED <<migrate, alembic, managerInit>>

SpecResolve == InitResolve /\ [][NextResolve]_vars

\* The managers on their own: a loaded agent, a manager, a migration directory
\* and a schema at any version of it, and calls of Apply and Update.
InitMigrate ==
    /\ Loaded
    /\ resolve = NoResolve
    /\ alembic = NoAlembic
    /\ managerInit = NoManagerInit
    /\ \E manager \in {"gomigrate", "alembic"}, exists \in BOOLEAN, latest \in 0..MaxVersion :
       \E version \in 0..MaxVersion, dirty \in BOOLEAN :
          \* a directory that is not there holds no migration
          /\ ~exists => latest = 0
          \* the schema was migrated from the directory, or nothing was
          /\ exists => version <= latest
          /\ dirty => version > 0
          /\ migrate = [NoMigrate EXCEPT !.manager = manager, !.exists = exists,
                                         !.latest = latest,
                                         !.version = version, !.dirty = dirty,
                                         !.before = [version |-> version, dirty |-> dirty]]

\* the files whose change the handler passes to Update
MigrationFiles ==
    {path \in Paths : Contains(path, "migrations")} \cup
    {<<"/", "svc", "/", "migrations", "/", Numerals[n], "_", "init.up.sql">> : n \in 1..MaxVersion}

Called(op, path, made, r, number) ==
    migrate' = [migrate EXCEPT !.op = op, !.path = path, !.made = made, !.number = number,
                               !.before = [version |-> migrate.version, dirty |-> migrate.dirty],
                               !.prior = [op |-> migrate.op, err |-> migrate.err],
                               !.version = r.version, !.dirty = r.dirty,
                               !.ran = r.ran, !.calls = r.calls,
                               !.err = r.err, !.cause = r.cause]

\* Manager.Apply is called
ApplyCall ==
    /\ \E made \in BOOLEAN, fails \in 0..MaxVersion, visible \in BOOLEAN :
        LET e == [version |-> migrate.version, dirty |-> migrate.dirty]
            r == IF migrate.manager = "alembic"
                 THEN AlembicApplySteps(e, migrate.exists, migrate.latest, made, fails, visible)
                 ELSE GolangMigrateApplySteps(e, migrate.exists, migrate.latest, made, fails)
        IN  Called("Apply", <<>>, made, r, 0)
    /\ UNCHANGED <<programVars, resolve, alembic, managerInit>>

\* Update of the embedded manager is called
UpdateCall ==
    /\ migrate.manager = "gomigrate"
    /\ \E path \in MigrationFiles, made \in BOOLEAN,
          failsDown \in 0..MaxVersion, failsUp \in 0..MaxVersion :
        LET e == [version |-> migrate.version, dirty |-> migrate.dirty]
            r == GolangMigrateUpdateSteps(e, migrate.exists, migrate.latest, path, made,
                                          failsDown, failsUp)
        IN  Called("Update", path, made, r, r.number)
    /\ UNCHANGED <<programVars, resolve, alembic, managerInit>>

\* Update of the containerized manager is called
AlembicUpdateCall ==
    /\ migrate.manager = "alembic"
    /\ \E path \in MigrationFiles, made \in BOOLEAN,
          down \in CommandOutcomes, up \in CommandOutcomes :
        LET e == [version |-> migrate.version, dirty |-> migrate.dirty]
            r == AlembicUpdateSteps(e, migrate.exists, migrate.latest, made, down, up)
        IN  Called("Update", path, made, r, 0)
    /\ UNCHANGED <<programVars, resolve, alembic, managerInit>>

NextMigrate == ApplyCall \/ UpdateCall \/ AlembicUpdateCall

SpecMigrate == InitMigrate /\ [][NextMigrate]_vars

----------------------------------------------------------------------------
\* Manager.Init, called on a manager with a list of configurations

\* a configuration of a scope, with its connection string or without
ScopedConfigurations ==
    UNION {{[scope |-> scope,
             values |-> [key \in {"connection"} |-> ConfiguredConnection(scope)]],
            [scope |-> scope, values |-> [key \in {} |-> <<>>]]} : scope \in Scopes}

\* the lists of at most MaxConfigurations configurations
ConfigurationLists ==
    UNION {[1..n -> ScopedConfigurations] : n \in 0..MaxConfigurations}

\* what a manager holds before the call: nothing, or what an earlier call has
\* left (the embedded manager has the one connection string)
StoredBefore(manager) ==
    {stored \in [container : {<<>>, ConfiguredConnection("container")},
                 native : {<<>>, ConfiguredConnection("native")}] :
        manager = "gomigrate" => stored.container = <<>>}

InitManagerInit ==
    /\ Loaded
    /\ resolve = NoResolve
    /\ migrate = NoMigrate
    /\ alembic = NoAlembic
    /\ \E manager \in {"gomigrate", "alembic"}, configurations \in ConfigurationLists :
       \E stored \in StoredBefore(manager) :
          managerInit = [NoManagerInit EXCEPT !.manager = manager,
                                              !.configurations = configurations,
                                              !.before = stored, !.stored = stored]

\* Manager.Init is called with the configurations
ManagerInitCall ==
    /\ ~managerInit.done
    /\ LET r == ManagerInitResult(managerInit.manager, managerInit.configurations,
                                  managerInit.stored)
       IN  managerInit' = [managerInit EXCEPT !.done = TRUE, !.stored = r.stored,
                                              !.err = r.err]
    /\ UNCHANGED <<programVars, resolve, migrate, alembic>>

NextManagerInit == ManagerInitCall

SpecManagerInit == InitManagerInit /\ [][NextManagerInit]_vars

----------------------------------------------------------------------------
\* The containerized manager, step by step (alembic.go:56-363).  The commands
\* of Apply run under context.Background() (migrationCtx, line 105); getRunner,
\* runner.Init and runner.Shutdown are given the context of the caller, and so
\* is every step of Update.

InitAlembic ==
    /\ Loaded
    /\ resolve = NoResolve
    /\ migrate = NoMigrate
    /\ managerInit = NoManagerInit
    /\ \E schema \in {"empty", "migrated", "uncommitted"}, files \in BOOLEAN :
          alembic = [NoAlembic EXCEPT !.schema = schema, !.files = files]

\* the call returns err; runner.Shutdown(ctx), when it was deferred (lines
\* 112-117, 342), is called: it removes the helper container unless it fails or
\* the context is done.  Its error is logged (Apply) or dropped (Update).
AlembicReturn(a, err) ==
    LET there == a.runner \in {"partial", "running"}
    IN  [a EXCEPT !.at = "done", !.err = err,
                  !.shutdownCalled = a.deferred,
                  !.runner = IF a.deferred /\ there /\ a.down /\ ~a.ctxDone
                             THEN "shutdown" ELSE a.runner,
                  !.interrupted = IF a.deferred /\ there /\ a.ctxDone
                                  THEN a.interrupted \cup {"runner.Shutdown"}
                                  ELSE a.interrupted]

\* line 57: fmt.Sprintf("alembic-%d", time.Now().UnixMilli())
HelperName(now) == <<"alembic-", now>>

\* Apply or Update is called; getRunner (lines 56-101) names and makes the
\* environment; Apply defers runner.Shutdown at once (lines 112-117)
AlembicCall ==
    /\ alembic.at \in {"idle", "done"}
    /\ \E op \in {"Apply", "Update"}, ok \in BOOLEAN, now \in 1..MaxTime, down \in BOOLEAN :
        LET name == HelperName(now)
            fresh == [NoAlembic EXCEPT !.op = op, !.schema = alembic.schema,
                                       !.files = alembic.files, !.name = name,
                                       !.names = alembic.names \cup {name},
                                       !.down = down]
        IN  alembic' = IF ok THEN [fresh EXCEPT !.at = "init", !.runner = "made",
                                                !.deferred = op = "Apply"]
                       ELSE AlembicReturn(fresh, "cannot create docker environment")
    /\ UNCHANGED <<programVars, resolve, migrate, managerInit>>

\* the context of the caller is cancelled, or its deadline passes
CancelContext ==
    /\ alembic.at \notin {"idle", "done"}
    /\ ~alembic.ctxDone
    /\ alembic' = [alembic EXCEPT !.ctxDone = TRUE]
    /\ UNCHANGED <<programVars, resolve, migrate, managerInit>>

\* runner.Init(ctx) (lines 119-122, 338-341).  When it fails it may have made
\* the container already (left).  Update defers runner.Shutdown only after it
\* has succeeded (line 342).
AlembicRunnerInit ==
    /\ alembic.at = "init"
    /\ IF alembic.ctxDone
       THEN alembic' = AlembicReturn(
                [alembic EXCEPT !.interrupted = @ \cup {"runner.Init"}],
                IF alembic.op = "Apply" THEN "cannot init runner"
                ELSE "cannot init docker environment")
       ELSE \E ok \in BOOLEAN, left \in BOOLEAN :
              alembic' = IF ok
                         THEN [alembic EXCEPT !.runner = "running",
                                              !.deferred = TRUE,
                                              !.at = IF alembic.op = "Apply" THEN "current"
                                                     ELSE "downgrade"]
                         ELSE AlembicReturn(
                                [alembic EXCEPT !.runner = IF left THEN "partial" ELSE @],
                                IF alembic.op = "Apply" THEN "cannot init runner"
                                ELSE "cannot init docker environment")
    /\ UNCHANGED <<programVars, resolve, migrate, managerInit>>

\* "alembic current" (lines 124-134)
AlembicCurrent ==
    /\ alembic.at = "current"
    /\ \E ok \in BOOLEAN :
        LET ran == [alembic EXCEPT !.commands = @ \cup {"alembic current"}]
        IN  alembic' = IF ok THEN [ran EXCEPT !.at = "upgrade"]
                       ELSE AlembicReturn([ran EXCEPT !.currentFailed = TRUE],
                                          "cannot check current version")
    /\ UNCHANGED <<programVars, resolve, migrate, managerInit>>

\* "alembic upgrade head" (lines 136-149): with revisions in the directory the
\* version table and the tables are made; the tables of a schema that had none
\* are not visible to other connections until the transaction is committed
AlembicUpgrade ==
    /\ alembic.at = "upgrade"
    /\ \E ok \in BOOLEAN :
        LET ran == [alembic EXCEPT !.commands = @ \cup {"alembic upgrade head"}]
        IN  alembic' = IF ok
                       THEN [ran EXCEPT !.at = "activity",
                                        !.schema = IF alembic.files /\ alembic.schema = "empty"
                                                   THEN "uncommitted" ELSE alembic.schema]
                       ELSE AlembicReturn(ran, "alembic upgrade failed")
    /\ UNCHANGED <<programVars, resolve, migrate, managerInit>>

\* the transaction of the upgrade is committed: the tables become visible
Commit ==
    /\ alembic.at \in {"activity", "commit", "terminate", "final", "poll"}
    /\ alembic.schema = "uncommitted"
    /\ alembic' = [alembic EXCEPT !.schema = "migrated"]
    /\ UNCHANGED <<programVars, resolve, migrate, managerInit>>

\* what a psql command of the cleanup meets: the process cannot be created,
\* the command fails, the command succeeds
CleanupOutcomes == {"nocreate", "runfail", "ok"}

\* a mutation of AlembicCleanup: a command that fails ends Apply
AlembicCleanupFailureReturns(a, command, outcome, next) ==
    IF outcome = "ok"
    THEN [a EXCEPT !.commands = @ \cup {command}, !.at = next]
    ELSE AlembicReturn(a, "cleanup failed")

\* a cleanup command of lines 151-181: a process that cannot be created is
\* warned about, the error of a command that is run is dropped, and Apply goes on
AlembicCleanup(a, command, outcome, next) ==
    [a EXCEPT !.commands = IF outcome = "nocreate" THEN @ ELSE @ \cup {command},
              !.at = next]

\* the query of pg_stat_activity for open transactions (lines 151-159)
AlembicActivity ==
    /\ alembic.at = "activity"
    /\ \E o \in CleanupOutcomes :
          alembic' = AlembicCleanup(alembic, "psql pg_stat_activity", o, "commit")
    /\ UNCHANGED <<programVars, resolve, migrate, managerInit>>

\* the explicit COMMIT (lines 161-169), in a session of its own
AlembicCommit ==
    /\ alembic.at = "commit"
    /\ \E o \in CleanupOutcomes :
          alembic' = AlembicCleanup(alembic, "psql COMMIT", o, "terminate")
    /\ UNCHANGED <<programVars, resolve, migrate, managerInit>>

\* the backends left idle in transaction are terminated (lines 171-181)
AlembicTerminate ==
    /\ alembic.at = "terminate"
    /\ \E o \in CleanupOutcomes :
          alembic' = AlembicCleanup(alembic, "psql pg_terminate_backend", o, "final")
    /\ UNCHANGED <<programVars, resolve, migrate, managerInit>>

\* "alembic current" again (lines 183-193)
AlembicFinal ==
    /\ alembic.at = "final"
    /\ \E ok \in BOOLEAN :
          alembic' = IF ok THEN [alembic EXCEPT !.at = "poll"]
                     ELSE AlembicReturn(alembic, "cannot check final version")
    /\ UNCHANGED <<programVars, resolve, migrate, managerInit>>

\* what one check for tables meets: the connection cannot be opened, the ping
\* fails, the query fails, the query is answered
CheckOutcomes == {"openfail", "pingfail", "queryfail", "answered"}

\* a mutation of AlembicCheckTables: a check that fails ends Apply
AlembicCheckTablesFailureReturns ==
    /\ alembic.at = "poll"
    /\ alembic.i < maxRetries
    /\ \E o \in CheckOutcomes :
        LET found == o = "answered" /\ alembic.schema = "migrated"
            checked == [alembic EXCEPT !.i = @ + 1,
                                       !.sleeps = IF alembic.i > 0 THEN @ + 1 ELSE @,
                                       !.tables = found,
                                       !.lastErr = IF o = "answered" THEN @ ELSE o]
        IN  alembic' = IF found THEN AlembicReturn(checked, Nil)
                       ELSE IF o # "answered" THEN AlembicReturn(checked, "failed to check tables")
                       ELSE IF checked.i = maxRetries THEN [checked EXCEPT !.at = "diagnose"]
                       ELSE checked
    /\ UNCHANGED <<programVars, resolve, migrate, managerInit>>

\* one pass of the loop of lines 203-254: the delay (not before the first
\* check), sql.Open, Ping, the query for the tables
AlembicCheckTables ==
    /\ alembic.at = "poll"
    /\ alembic.i < maxRetries
    /\ \E o \in CheckOutcomes :
        LET found == o = "answered" /\ alembic.schema = "migrated"
            checked == [alembic EXCEPT !.i = @ + 1,
                                       !.sleeps = IF alembic.i > 0 THEN @ + 1 ELSE @,
                                       !.tables = found,
                                       !.lastErr = IF o = "answered" THEN @ ELSE o]
        IN  alembic' = IF found THEN AlembicReturn(checked, Nil)
                       ELSE IF checked.i = maxRetries THEN [checked EXCEPT !.at = "diagnose"]
                       ELSE checked
    /\ UNCHANGED <<programVars, resolve, migrate, managerInit>>

\* lines 258-327: no tables after the last check.  The version table is looked
\* for over a fresh connection; when it is seen, the transaction error is
\* returned, otherwise the last error of the checks or, with none, the error
\* for no tables
AlembicDiagnose ==
    /\ alembic.at = "diagnose"
    /\ \E opened \in BOOLEAN, answered \in BOOLEAN :
        LET hasAlembicVersion == alembic.schema \in {"migrated", "uncommitted"}
        IN  alembic' =
              IF opened /\ answered /\ hasAlembicVersion
              THEN AlembicReturn([alembic EXCEPT !.commands = @ \cup {"psql again"}],
                                 "transaction issue detected")
              ELSE IF alembic.lastErr # Nil
              THEN AlembicReturn(alembic, "failed to check tables")
              ELSE AlembicReturn(alembic, "no tables found in database")
    /\ UNCHANGED <<programVars, resolve, migrate, managerInit>>

\* Update: "alembic downgrade -1" (lines 344-352), run under the caller's context
AlembicDowngrade ==
    /\ alembic.at = "downgrade"
    /\ IF alembic.ctxDone
       THEN alembic' = AlembicReturn([alembic EXCEPT !.interrupted = @ \cup {"alembic downgrade"}],
                                     "alembic downgrade failed")
       ELSE \E ok \in BOOLEAN :
            LET ran == [alembic EXCEPT !.commands = @ \cup {"alembic downgrade"}]
            IN  alembic' = IF ok THEN [ran EXCEPT !.at = "upgradeOne"]
                           ELSE AlembicReturn(ran, "alembic downgrade failed")
    /\ UNCHANGED <<programVars, resolve, migrate, managerInit>>

\* Update: "alembic upgrade +1" (lines 354-362), run under the caller's context
AlembicUpgradeOne ==
    /\ alembic.at = "upgradeOne"
    /\ IF alembic.ctxDone
       THEN alembic' = AlembicReturn([alembic EXCEPT !.interrupted = @ \cup {"alembic upgrade"}],
                                     "alembic upgrade failed")
       ELSE \E ok \in BOOLEAN :
            LET ran == [alembic EXCEPT !.commands = @ \cup {"alembic upgrade"}]
            IN  alembic' = IF ok THEN AlembicReturn(ran, Nil)
                           ELSE AlembicReturn(ran, "alembic upgrade failed")
    /\ UNCHANGED <<programVars, resolve, migrate, managerInit>>

NextAlembic ==
    \/ AlembicCall
    \/ CancelContext
    \/ AlembicRunnerInit
    \/ AlembicCurrent
    \/ AlembicUpgrade
    \/ Commit
    \/ AlembicActivity
    \/ AlembicCommit
    \/ AlembicTerminate
    \/ AlembicFinal
    \/ AlembicCheckTables
    \/ AlembicDiagnose
    \/ AlembicDowngrade
    \/ AlembicUpgradeOne

SpecAlembic == InitAlembic /\ [][NextAlembic]_vars

\* The agent with the context of the query of WaitForReady either as the code
\* leaves it or live.  Every behaviour of SpecCtx is a behaviour of Spec, so
\* what is invariant here is invariant of the code; the steps of Start after
\* the poll are reachable here.
Next ==
    \/ Others
    \/ StartCall
    \/ WaitForReady
    \/ WaitForReadyLive
    \/ WaitForReadyExhausted
    \/ StartMigrate
    \/ StartApply
    \/ StartWatch

Spec == Init /\ [][Next]_vars

----------------------------------------------------------------------------
\* The readiness poll

\* C1: the readiness poll returns success in the attempt in which the database
\* first answers the ping and the query, whichever attempt K that is: once an
\* attempt has been answered, the K probes made are all there are, the poll has
\* returned success and Start is at the migration step.
C1_ReadyReturnsAtK ==
    poll.answered =>
        /\ call.wait = "ok"
        /\ pc = "migrate"
        /\ retry = 0

\* C2: the poll never makes more than maxRetry attempts; while it goes on, every
\* attempt made has failed without ending it; and it returns the "database is
\* not ready" error, which Start returns, only after maxRetry attempts.
C2_NotReadyOnlyAfterFullBound ==
    /\ poll.probes <= maxRetry
    /\ pc = "wait" => (poll.probes = retry /\ resp = [op |-> "Start", err |-> "pending"])
    /\ call.wait = "not ready" =>
          /\ poll.probes = maxRetry
          /\ pc = "idle"
          /\ resp = [op |-> "Start", err |-> "database is not ready after maximum retries"]

\* the poll has failed, no attempt was answered and a connection could not be opened
C2_ExhaustedWithOpenFailure ==
    /\ call.wait = "not ready"
    /\ ~poll.answered
    /\ poll.openFailed
    /\ resp.err = "database is not ready after maximum retries"

----------------------------------------------------------------------------
\* The steps of Start

\* C3: the steps of Start after the poll are reached only when the poll has
\* returned success; Manager.Init is called only then and with migrations
\* enabled; Apply is called only after Manager.Init has returned no error; after
\* an error of either, Start has returned an error and SetupWatcher was not called.
C3_MigrationStepOrder ==
    /\ pc \in {"migrate", "apply", "watch"} => call.wait = "ok"
    /\ call.mgrInit # "none" => (call.wait = "ok" /\ ~settings.NoMigration)
    /\ (pc = "apply" \/ call.apply # "none") => call.mgrInit = "ok"
    /\ (pc = "watch" /\ call.mgrInit # "none") => call.apply = "ok"
    /\ (call.mgrInit = "err" \/ call.apply = "err") =>
          /\ pc = "idle"
          /\ resp.op = "Start"
          /\ resp.err \notin {Nil, "pending"}
          /\ call.watcher = "none"

\* Apply has failed after Manager.Init, in a Start that would have registered
\* the watcher
C3_ApplyFailedAfterInit ==
    /\ call.wait = "ok"
    /\ call.mgrInit = "ok"
    /\ call.apply = "err"
    /\ settings.HotReload
    /\ resp.op = "Start"

C6_StartAfterStopRefused ==
    call.afterStop =>
        /\ poll.probes = 0
        /\ pc \notin {"migrate", "apply", "watch"}
        /\ call.wait # "ok"
        /\ call.watcher = "none"

----------------------------------------------------------------------------
\* Stop and Destroy

\* C7 as the specification has it: after Stop has returned success the
\* container is not running.
C7_StopStopsTheContainer == resp = [op |-> "Stop", err |-> Nil] => container # "running"

\* C7: Stop leaves the container as it is.
C7_StopKeepsContainer == [][resp'.op = "Stop" => container' = container]_vars

\* Stop has returned success and the container Init started is running
C7_StoppedStillRunning ==
    /\ resp = [op |-> "Stop", err |-> Nil]
    /\ lifecycle = "Stopped"
    /\ runnerEnvironment = "initialized"
    /\ container = "running"

\* C8: whatever the state Destroy was called in, it has returned without error
\* and no container of the name is left.
C8_DestroyInAnyState == resp.op = "Destroy" => (resp.err = Nil /\ container = "absent")

\* C9: Destroy reports no error to its caller.
C9_DestroyBestEffort == resp.op = "Destroy" => resp.err = Nil

----------------------------------------------------------------------------
\* The event handler

\* C10: the handler has returned nil every time, whatever Manager.Update
\* returned, and a step of the handler changes neither the lifecycle state, nor
\* the registration with the watcher, nor a lifecycle call in progress.
C10_HandlerNeverFails ==
    /\ [](handled.returned \subseteq {Nil})
    /\ [][(hpc' # hpc \/ handled' # handled) =>
             (lifecycle' = lifecycle /\ watcher' = watcher /\ pc' = pc /\ resp' = resp)]_vars

\* an Update has failed, an event has arrived after it and has been handled
C10_HandledAfterFailure ==
    /\ handled.failed
    /\ handled.later
    /\ hpc.at = "idle"
    /\ handled.returned = {Nil}
    /\ lifecycle = "Running"
    /\ watcher

C12_WatcherFailureNotFatal ==
    /\ [](call.watcher = "err" =>
            /\ pc = "idle"
            /\ resp = [op |-> "Start", err |-> Nil]
            /\ lifecycle = "Running"
            /\ call.wait = "ok"
            /\ call.mgrInit # "none" => call.apply = "ok")
    /\ [][(pc = "watch" /\ pc' = "idle") =>
             (container' = container /\ database' = database)]_vars

\* SetupWatcher has failed in a Start that has applied the migrations
C12_StartedWithoutWatcher ==
    /\ call.watcher = "err"
    /\ call.apply = "ok"
    /\ database = "migrated"
    /\ container = "running"
    /\ resp = [op |-> "Start", err |-> Nil]
    /\ ~watcher

C14_ConnectionStringFormat ==
    (resolve.done /\ resolve.err = Nil) =>
        LET exempt == \/ ~resolve.withSSL
                      \/ \E i \in 1..Len(resolve.address) :
                            resolve.address[i] \in {"localhost", "host.docker.internal"}
            expected == <<"postgresql://">> \o resolve.conf["POSTGRES_USER"] \o <<":">>
                        \o resolve.conf["POSTGRES_PASSWORD"] \o <<"@">>
                        \o resolve.address \o <<"/">> \o resolve.DatabaseName
        IN  /\ exempt => resolve.conn = expected \o <<"?sslmode=disable">>
            /\ ~exempt => resolve.conn = expected

\* a connection string was made for the address of the host as containers see
\* it, with withSSL set
C14_LocalAddressWithSSL ==
    /\ resolve.done
    /\ resolve.err = Nil
    /\ resolve.withSSL
    /\ resolve.address = <<"host.docker.internal", ":", "5432">>
    /\ resolve.conn[Len(resolve.conn)] = "?sslmode=disable"

\* C15: when the user or the password is not in the configuration,
\* createConnectionString returns an error and the empty string, and an Init that
\* was called with the configuration returns an error and registers nothing.
C15_MissingCredentialsAreFatal ==
    (resolve.done /\ DOMAIN resolve.conf # CredentialKeys) =>
        /\ resolve.err # Nil
        /\ resolve.conn = <<>>
        /\ resp.op = "Init" =>
              /\ resp.err # Nil
              /\ connection = <<>>
              /\ RuntimeConfigurations = <<>>
              /\ lifecycle = "Loaded"
              /\ migrationManager = Nil

\* Init was called with a configuration that has the user and not the password
C15_InitWithoutPassword ==
    /\ resolve.done
    /\ DOMAIN resolve.conf = {"POSTGRES_USER"}
    /\ resp = [op |-> "Init", err |-> "cannot create connection string"]

\* C16: after a successful Init the registered configurations hold one
\* configuration for the native scope and none twice for the same instance.
C16_OneConfigurationPerInstance ==
    resp = [op |-> "Init", err |-> Nil] =>
        /\ \E i \in 1..Len(RuntimeConfigurations) : RuntimeConfigurations[i] = "native"
        /\ \A i, j \in 1..Len(RuntimeConfigurations) :
              RuntimeConfigurations[i] = RuntimeConfigurations[j] => i = j

C18_ApplyIdempotent ==
    ( /\ migrate.op = "Apply"
      /\ migrate.made
      /\ migrate.latest > 0
      /\ migrate.before = [version |-> migrate.latest, dirty |-> FALSE] ) =>
        /\ migrate.err = Nil
        /\ migrate.ran = <<>>
        /\ migrate.version = migrate.latest
        /\ ~migrate.dirty

\* Apply was called a second time, after an Apply that brought the schema to
\* the latest version
C18_SecondApply ==
    /\ migrate.op = "Apply"
    /\ migrate.made
    /\ migrate.prior = [op |-> "Apply", err |-> Nil]
    /\ migrate.latest = 2
    /\ migrate.before = [version |-> 2, dirty |-> FALSE]
    /\ migrate.err = Nil

\* C19: an Update of the embedded manager for the file of migration N that
\* returns no error has forced version N, has run the down and then the up
\* migration of N, and leaves the schema at the latest version.
C19_UpdateReexecutes ==
    (migrate.op = "Update" /\ migrate.manager = "gomigrate" /\ migrate.err = Nil) =>
        /\ migrate.ran[1] = Step("force", migrate.number)
        /\ \E i, j \in 2..Len(migrate.ran) :
              /\ i < j
              /\ migrate.ran[i] = Step("down", migrate.number)
              /\ migrate.ran[j] = Step("up", migrate.number)
        /\ migrate.version = migrate.latest
        /\ ~migrate.dirty

\* an Update for the file of the latest migration has returned no error
C19_UpdatedLatest ==
    /\ migrate.op = "Update"
    /\ migrate.manager = "gomigrate"
    /\ migrate.err = Nil
    /\ migrate.number = 3
    /\ migrate.before.version = 3
    /\ migrate.version = 3

\* C20: an Update of the embedded manager for the file of migration N runs no
\* down or up migration of another version, and each of the two at most once.
C20_UpdateRunsOnlyTheOne ==
    (migrate.op = "Update" /\ migrate.manager = "gomigrate") =>
        /\ \A i \in 1..Len(migrate.ran) :
              migrate.ran[i].dir \in {"down", "up"} => migrate.ran[i].version = migrate.number
        /\ Len(migrate.ran) <= 3

\* C21: an Update of the embedded manager for a file whose name, up to the
\* first "_", is not a number returns the parse error, runs nothing and leaves
\* the version and the dirty flag of the schema as they were.
C21_UnparsableNameChangesNothing ==
    ( /\ migrate.op = "Update"
      /\ migrate.manager = "gomigrate"
      /\ \A n \in 1..Len(Numerals) : Prefix(Base(migrate.path)) # <<Numerals[n]>> ) =>
        /\ migrate.err = "cannot parse migration number"
        /\ migrate.ran = <<>>
        /\ [version |-> migrate.version, dirty |-> migrate.dirty] = migrate.before

\* Update was called for a revision file of alembic, on a schema at version 2
C21_UpdateWithRevisionFile ==
    /\ migrate.op = "Update"
    /\ migrate.manager = "gomigrate"
    /\ migrate.path = <<"/", "svc", "/", "migrations", "/", "versions", "/", "a1b2", "_", "init.py">>
    /\ migrate.made
    /\ migrate.before = [version |-> 2, dirty |-> FALSE]
    /\ migrate.version = 2

C23_ApplyDoesNotRetry ==
    (migrate.op = "Apply" /\ migrate.manager = "gomigrate") =>
        /\ Len(migrate.calls) <= 1
        /\ \A i, j \in 1..Len(migrate.ran) : migrate.ran[i] = migrate.ran[j] => i = j
        /\ (migrate.cause # Nil) => (migrate.err # Nil)
        /\ (migrate.calls # <<>> /\ migrate.before.dirty) =>
              /\ migrate.err = "cannot apply migration"
              /\ migrate.cause = "Dirty database version"
              /\ migrate.ran = <<>>
              /\ migrate.dirty

\* Apply of the embedded manager was called on a dirty schema with a migration pending
C23_ApplyOnDirtySchema ==
    /\ migrate.op = "Apply"
    /\ migrate.manager = "gomigrate"
    /\ migrate.before = [version |-> 1, dirty |-> TRUE]
    /\ migrate.latest = 2
    /\ migrate.calls = <<"Up">>
    /\ migrate.err # Nil

\* C24: with no migration directory, Apply and Update return no error, make no
\* call of the engine, run no command and leave the schema as it is.
C24_NoDirectoryIsNoOp ==
    (migrate.op # "none" /\ ~migrate.exists) =>
        /\ migrate.err = Nil
        /\ migrate.calls = <<>>
        /\ migrate.ran = <<>>
        /\ [version |-> migrate.version, dirty |-> migrate.dirty] = migrate.before

\* C25: when the first "alembic current" of Apply fails, Apply goes on to
\* "alembic upgrade head" and does not return the failure of the command.
C25_CurrentIsDiagnosticOnly ==
    (alembic.at = "done" /\ alembic.currentFailed) =>
        /\ "alembic upgrade head" \in alembic.commands
        /\ alembic.err # "cannot check current version"

\* C26: when Apply has made all its checks and the database shows no tables, it
\* returns the transaction error if the version table exists and the error for
\* no tables if it does not, and no other.
C26_TwoTierDiagnosis ==
    ( /\ alembic.at = "done"
      /\ alembic.op = "Apply"
      /\ alembic.i = maxRetries
      /\ ~alembic.tables
      /\ alembic.schema \in {"empty", "uncommitted"} ) =>
        alembic.err = IF alembic.schema = "uncommitted"
                      THEN "transaction issue detected"
                      ELSE "no tables found in database"

\* C27: no step of Apply or Update fails because the context of the caller is done.
C27_DetachedFromCallerContext == alembic.interrupted = {}

\* C30: Apply makes at most 12 checks for tables, sleeps once between two
\* checks, returns no error at the first check that finds tables, and goes on
\* to the next check after one that fails or finds none.
C30_TablePolling ==
    /\ [](/\ alembic.i <= maxRetries
          /\ alembic.at = "poll" => alembic.i < maxRetries
          /\ alembic.i >= 1 => alembic.sleeps = alembic.i - 1
          /\ alembic.tables => (alembic.at = "done" /\ alembic.err = Nil))
    /\ [][(alembic.at = "poll" /\ alembic'.i # alembic.i) =>
             /\ alembic'.i = alembic.i + 1
             /\ (~alembic'.tables /\ alembic'.i < maxRetries) =>
                   (alembic'.at = "poll" /\ alembic'.err = Nil)
             /\ (~alembic'.tables /\ alembic'.i = maxRetries) => alembic'.at = "diagnose"]_vars

\* the third check has found the tables, after a check that failed
C30_FoundAtThirdCheck ==
    /\ alembic.at = "done"
    /\ alembic.err = Nil
    /\ alembic.i = 3
    /\ alembic.sleeps = 2
    /\ alembic.tables
    /\ alembic.lastErr = "pingfail"

\* C28: every helper container of the service gets the same name.
C28_HelperNameIsDeterministic ==
    \A name, other \in alembic.names : name = other

\* C29: the connection strings are written once.  The connection string of the
\* service changes only in a step of Init: no step of Start, of the event
\* handler, of Stop or of Destroy modifies it.  The connection strings the
\* manager stores change only where Init makes a new manager and where Start
\* calls Manager.Init: no step of Apply or of Update modifies them.
C29_ConnectionStringsWrittenOnce ==
    [][LET InitStep == /\ pc = "idle"
                       /\ pc' = "idle"
                       /\ resp'.op = "Init"
                       /\ handlerVars' = handlerVars
           ManagerInitStep == pc = "migrate"
       IN  /\ connection' # connection => InitStep
           /\ managerConnections' # managerConnections => InitStep \/ ManagerInitStep]_vars

\* C29: after a Start that applied the migrations with the stored connection
\* string and an Update of the event handler, the service was destroyed, and the
\* strings are the ones Init and Manager.Init wrote
C29_StringsKeptUntilDestroyed ==
    /\ lifecycle = "Destroyed"
    /\ resp = [op |-> "Destroy", err |-> Nil]
    /\ handled.failed
    /\ connection = ConfiguredConnection("native")
    /\ managerConnections.native = ConfiguredConnection("native")

----------------------------------------------------------------------------
\* The steps of the containerized manager

\* the psql commands of the cleanup of Apply
CleanupCommands == {"psql pg_stat_activity", "psql COMMIT", "psql pg_terminate_backend"}

\* C31: Apply runs its steps in a fixed order: the query of pg_stat_activity
\* comes only after an upgrade that succeeded, the COMMIT only after the query,
\* the termination only after the COMMIT, the check of the final version only
\* after the termination and the polling only after that; a cleanup step,
\* whatever its outcome, is followed by the next step and never by the return
\* of Apply; and an upgrade that fails makes Apply return an error with no
\* cleanup command run and no check for tables made.
C31_ApplyStepOrder ==
    /\ [][LET at == alembic.at
              to == alembic'.at
          IN  (alembic.op = "Apply" /\ to # at) =>
                /\ to = "activity" => (at = "upgrade" /\ alembic'.err = Nil)
                /\ to = "commit" => at = "activity"
                /\ to = "terminate" => at = "commit"
                /\ to = "final" => at = "terminate"
                /\ to = "poll" => at = "final"
                /\ at = "activity" => to = "commit"
                /\ at = "commit" => to = "terminate"
                /\ at = "terminate" => to = "final"
                /\ (at = "upgrade" /\ to = "done") =>
                      /\ alembic'.err = "alembic upgrade failed"
                      /\ alembic'.commands \cap CleanupCommands = {}
                      /\ alembic'.i = 0]_vars
    /\ [](alembic.commands \cap CleanupCommands # {} =>
            "alembic upgrade head" \in alembic.commands)

\* Apply has returned success although the COMMIT could not be made and the
\* query of pg_stat_activity was run
C31_AppliedWithoutCommit ==
    /\ alembic.at = "done"
    /\ alembic.op = "Apply"
    /\ alembic.err = Nil
    /\ alembic.tables
    /\ "psql pg_stat_activity" \in alembic.commands
    /\ "psql COMMIT" \notin alembic.commands

\* the commands of a call of the containerized manager, made of the helper
\* container, hold the downgrade, and after it at most the upgrade
DowngradeThenUpgrade ==
    /\ Len(migrate.calls) >= 3
    /\ migrate.calls[1] = "getRunner"
    /\ migrate.calls[3] = "alembic downgrade -1"
    /\ \A i \in 1..Len(migrate.calls) : migrate.calls[i] = "alembic upgrade +1" => i = 4

----------------------------------------------------------------------------
\* The watcher and the migrations

\* C33: when Start has returned success with hot-reload enabled, that Start has
\* called SetupWatcher with the event handler, with migrations enabled or not.
C33_HotReloadOffersHandler ==
    (resp = [op |-> "Start", err |-> Nil] /\ settings.HotReload) => call.watcher # "none"

\* Start has returned success with hot-reload enabled and migrations disabled,
\* and the handler is registered
C33_WatchingWithoutMigrations ==
    /\ resp = [op |-> "Start", err |-> Nil]
    /\ settings.HotReload
    /\ settings.NoMigration
    /\ call.mgrInit = "none"
    /\ call.watcher = "ok"
    /\ watcher

\* C34: within a Start the handler is registered with the watcher only after
\* Apply has returned without error: while Start is at the poll, at
\* Manager.Init or in Apply it has not called SetupWatcher; when it has, after
\* a migration step, Apply has returned no error; the watcher gets the handler
\* only in the last step of Start; and the handler begins an Update only with
\* a registration there, so none begins through the registration of a Start
\* before that Start's Apply has returned.
C34_WatcherAfterApply ==
    /\ [](pc \in {"wait", "migrate", "apply"} => call.watcher = "none")
    /\ []((call.watcher # "none" /\ call.mgrInit # "none") => call.apply = "ok")
    /\ [][(~watcher /\ watcher') =>
             /\ pc = "watch"
             /\ call.mgrInit # "none" => call.apply = "ok"]_vars
    /\ [][(hpc.at # "update" /\ hpc'.at = "update") => watcher]_vars

\* the handler, registered by a Start that has applied the migrations, is in
\* an Update
C34_UpdateAfterApply ==
    /\ hpc.at = "update"
    /\ pc = "idle"
    /\ resp = [op |-> "Start", err |-> Nil]
    /\ call.apply = "ok"
    /\ call.watcher = "ok"
    /\ watcher

\* C35: with migrations disabled there is never a manager, Start never calls
\* Manager.Init or Apply, and the event handler never calls Update.
C35_NoMigrationNoManager ==
    settings.NoMigration =>
        /\ migrationManager = Nil
        /\ call.mgrInit = "none"
        /\ call.apply = "none"
        /\ pc # "apply"
        /\ hpc.at # "update"
        /\ managerConnections = NoConnections

\* with migrations disabled, Init and Start have succeeded, the handler is
\* registered and has returned from an event without an Update
C35_EventWithoutManager ==
    /\ settings.NoMigration
    /\ settings.HotReload
    /\ lifecycle = "Running"
    /\ runnerEnvironment = "initialized"
    /\ resp = [op |-> "Start", err |-> Nil]
    /\ watcher
    /\ handled.returned = {Nil}

\* C36: when Apply or Update has returned and a helper container was made in
\* the call, by a runner.Init that succeeded or by one that failed, the call
\* has called runner.Shutdown.
C36_HelperAlwaysShutDown ==
    (alembic.at = "done" /\ alembic.runner \in {"partial", "running", "shutdown"}) =>
        alembic.shutdownCalled

\* C37: when Manager.Init has returned an error, the manager holds the
\* connection strings it held before the call.
C37_ManagerInitAllOrNothing ==
    (managerInit.done /\ managerInit.err # Nil) => managerInit.stored = managerInit.before

----------------------------------------------------------------------------
\* Init and the migration settings

\* C38: when Init has failed on the version directory or on the migration
\* format, the container runtime has been initialized and the container runs,
\* the configurations of the connection are registered and the connection
\* string is set; and a container that runs stops running only in a Destroy.
C38_ContainerBeforeMigrationChecks ==
    /\ []((/\ resp.op = "Init"
           /\ resp.err \in {"migration version directory is empty",
                             "unsupported migration format"}) =>
            /\ container = "running"
            /\ runnerEnvironment = "initialized"
            /\ RuntimeConfigurations # <<>>
            /\ connection # <<>>)
    /\ [][(container = "running" /\ container' # "running") => resp'.op = "Destroy"]_vars

\* Init has failed on the migration format, with no container before the call:
\* the container runs and the service is not initialized
C38_FailedInitLeavesContainer ==
    /\ resp = [op |-> "Init", err |-> "unsupported migration format"]
    /\ lifecycle = "Loaded"
    /\ container = "running"
    /\ migrationManager = Nil
    /\ RuntimeConfigurations = <<"native">>

\* C39: NewManager gives the embedded manager for "gomigrate", the
\* containerized one for "alembic", and for every other format, the empty one
\* included, no manager and the error "unsupported migration format"; the
\* manager of the service, when there is one, is the one of the format of the
\* settings; the error is returned by Init only with migrations enabled and
\* such a format; and with them no Init succeeds.
C39_ManagerSelectedByFormat ==
    /\ \A format \in Formats :
          NewManager(format) =
              IF format \in {"gomigrate", "alembic"}
              THEN [manager |-> format, err |-> Nil]
              ELSE [manager |-> Nil, err |-> "unsupported migration format"]
    /\ migrationManager \in {Nil, settings.MigrationFormat}
    /\ migrationManager \in {Nil, "gomigrate", "alembic"}
    /\ resp = [op |-> "Init", err |-> "unsupported migration format"] =>
          /\ ~settings.NoMigration
          /\ settings.MigrationFormat \notin {"gomigrate", "alembic"}
    /\ (~settings.NoMigration /\ settings.MigrationFormat \notin {"gomigrate", "alembic"}) =>
          /\ resp.op = "Init" => resp.err # Nil
          /\ lifecycle # "Initialized"

\* with migrations enabled and no format set, Init has failed at NewManager
C39_InitWithoutFormat ==
    /\ ~settings.NoMigration
    /\ settings.MigrationFormat = ""
    /\ resp = [op |-> "Init", err |-> "unsupported migration format"]
    /\ migrationManager = Nil
    /\ lifecycle = "Loaded"

====
